---- MODULE Spec2Model ----
(***************************************************************************)
(* OCI save / load of the tarexport engine (image/tarexport/save_oci.go    *)
(* and the OCI load path), as a state machine.                             *)
(*                                                                         *)
(* Strings of the program (image names, tags, override values) are TLA+    *)
(* strings.  A digest is a record [algo, hex]; the hex of a blob is the    *)
(* printed form of the blob, so two blobs have the same digest exactly     *)
(* when they have the same bytes.                                          *)
(***************************************************************************)
EXTENDS Integers, Sequences, FiniteSets, TLC

\* ------------------------------------------------------------------ bounds

\* Longest list of names handed to one save request.
MaxNames == 3
\* Largest number of --ref entries of one request.
MaxRefs == 2
\* The chunks the tar stream of a layer is read in.
NChunks == 2

\* ------------------------------------------------------------- digests

Digest(b) == [algo |-> "sha256", hex |-> ToString(b)]

NoDigest == [algo |-> "", hex |-> ""]

\* ------------------------------------------------ layers, images, stores

\* The uncompressed tar streams of the layers of the daemon.
LayerTars == {"tar1", "tar2"}

DiffID(tar) == Digest([tar |-> tar])

D1 == DiffID("tar1")
D2 == DiffID("tar2")

\* rootFS.ChainID(): chain(0) = diffID(0), chain(i) = H(chain(i-1) + " " + diffID(i)).
RECURSIVE ChainID(_)
ChainID(diffIDs) ==
    IF Len(diffIDs) = 0 THEN NoDigest
    ELSE IF Len(diffIDs) = 1 THEN diffIDs[1]
    ELSE Digest([parent |-> ChainID(SubSeq(diffIDs, 1, Len(diffIDs) - 1)),
                 diff |-> diffIDs[Len(diffIDs)]])

\* The configuration of an image: the bytes RawJSON() returns.
Config(label, diffIDs) == [config |-> label, rootfs |-> diffIDs]

ConfigA == Config("A", <<D1>>)
ConfigB == Config("B", <<D1, D2>>)
ConfigE == Config("E", <<>>)
\* An image whose two layers have the same content.
ConfigC == Config("C", <<D1, D1>>)
\* An image no store of the daemon holds.
ConfigX == Config("X", <<D2>>)

\* image.ID: the digest of the configuration.
IDFromConfig(config) == Digest(config)

IDA == IDFromConfig(ConfigA)
IDB == IDFromConfig(ConfigB)
IDE == IDFromConfig(ConfigE)
IDC == IDFromConfig(ConfigC)
IDX == IDFromConfig(ConfigX)

\* The image store of the daemon: image.ID -> configuration.
ImageStore == (IDA :> ConfigA) @@ (IDB :> ConfigB) @@ (IDE :> ConfigE) @@ (IDC :> ConfigC)

\* A layer of the layer store: its content, the chain it is stacked on and the
\* number of references held on it (by images, children and handles).
Layer(tar, parent, refCount) ==
    [diffID |-> DiffID(tar), tar |-> tar, parent |-> parent, refCount |-> refCount]

\* The layer store of the daemon: ChainID -> layer.  Image A holds the layer
\* of tar1, image B the layer of tar2 stacked on it, image C a second layer of
\* tar1 stacked on it.
LayerStore ==
    (ChainID(<<D1>>) :> Layer("tar1", NoDigest, 1 + 1 + 1))
        @@ (ChainID(<<D1, D2>>) :> Layer("tar2", ChainID(<<D1>>), 1))
        @@ (ChainID(<<D1, D1>>) :> Layer("tar1", ChainID(<<D1>>), 1))

\* ------------------------------------------------------------ references

DefaultTag == "latest"
CanonicalAlgo == "sha256"

\* A repository digest some references of the reference store carry.
RepoDigest == "sha256:dd"

NilRef == [name |-> "", tag |-> "", digest |-> ""]

Ref(name, tag, digest) == [name |-> name, tag |-> tag, digest |-> digest]

IsCanonical(ref) == ref.digest # ""
IsNamedTagged(ref) == ref.tag # ""
IsNameOnly(ref) == ref.tag = "" /\ ref.digest = ""

\* Named.String()
String(ref) ==
    ref.name \o (IF ref.tag # "" THEN ":" \o ref.tag ELSE "")
             \o (IF ref.digest # "" THEN "@" \o ref.digest ELSE "")

\* The spelling of the strings used as tags and as override values.
Chars(s) ==
    CASE s = "latest" -> <<"l", "a", "t", "e", "s", "t">>
      [] s = "t1" -> <<"t", "1">>
      [] s = "alt" -> <<"a", "l", "t">>
      [] s = "-x" -> <<"-", "x">>
      [] s = "in:valid" -> <<"i", "n", ":", "v", "a", "l", "i", "d">>
      [] s = "bb" -> <<"b", "b">>
      [] OTHER -> <<>>

WordChars == {"a", "b", "d", "e", "i", "l", "n", "s", "t", "v", "x", "1", "_"}

\* anchoredTagRegexp of the reference package: ^[\w][\w.-]{0,127}$
ValidTag(s) ==
    LET cs == Chars(s)
    IN /\ Len(cs) >= 1
       /\ Len(cs) <= 128
       /\ cs[1] \in WordChars
       /\ \A i \in 2..Len(cs) : cs[i] \in WordChars \cup {".", "-"}

\* Every reference the model's strings can spell.
RefUniverse ==
    {Ref(n, t, "") : n \in {"busybox", "img0", "img1"}, t \in {"", "latest", "t1", "alt"}}
        \cup {Ref("busybox", "", RepoDigest), Ref("img0", "", RepoDigest)}
        \cup {Ref(CanonicalAlgo, "bb", ""), Ref("ee", "", ""), Ref("notexists", "", "")}

Err(kind, arg) == [kind |-> kind, arg |-> arg]
NoErr == Err("", "")

\* reference.ParseNamed: the reference a string spells, or an error.
ParseNamed(s) ==
    IF \E r \in RefUniverse : String(r) = s
    THEN [ref |-> CHOOSE r \in RefUniverse : String(r) = s, err |-> NoErr]
    ELSE [ref |-> NilRef, err |-> Err("ParseError", s)]

\* reference.WithTag
WithTag(ref, tag) ==
    IF ValidTag(tag)
    THEN [ref |-> Ref(ref.name, tag, ""), err |-> NoErr]
    ELSE [ref |-> NilRef, err |-> Err("InvalidTag", tag)]

\* The full image IDs a name can spell (v1.ValidateID, digest.ParseDigest).
FullIDs == {IDA, IDB, IDE, IDX}

\* reference.ParseIDOrReference
ParseIDOrReference(s) ==
    IF \E id \in FullIDs : id.hex = s
    THEN [id |-> CHOOSE id \in FullIDs : id.hex = s, ref |-> NilRef, err |-> NoErr]
    ELSE [id |-> NoDigest, ref |-> ParseNamed(s).ref, err |-> ParseNamed(s).err]

\* ----------------------------------------------------- store interfaces

\* The short forms by which the image store's Search finds an image.
SearchIndex == ("sha256:bb" :> IDB) @@ ("ee" :> IDE)

\* image.Store.Get
ISGet(store, id) ==
    IF id \in DOMAIN store
    THEN [config |-> store[id], err |-> NoErr]
    ELSE [config |-> Config("", <<>>), err |-> Err("NotFound", id.hex)]

\* image.Store.Search
ISSearch(store, term) ==
    IF term \in DOMAIN SearchIndex /\ SearchIndex[term] \in DOMAIN store
    THEN [id |-> SearchIndex[term], err |-> NoErr]
    ELSE [id |-> NoDigest, err |-> Err("NotFound", term)]

\* The reference stores a daemon of the model can have: reference -> image.ID.
RefStores ==
    { (Ref("busybox", "latest", "") :> IDA) @@ (Ref("busybox", "t1", "") :> IDA)
          @@ (Ref("img0", "latest", "") :> IDB) @@ (Ref("img1", "latest", "") :> IDB),
      (Ref("busybox", "latest", "") :> IDA) @@ (Ref("img0", "latest", "") :> IDA)
          @@ (Ref("img0", "t1", "") :> IDB) @@ (Ref("busybox", "", RepoDigest) :> IDA),
      (Ref("busybox", "", RepoDigest) :> IDA) @@ (Ref("img0", "latest", "") :> IDB)
          @@ (Ref("img0", "t1", "") :> IDE) @@ (Ref("img1", "latest", "") :> IDC) }

\* reference.Store.Get
RSGet(store, ref) ==
    IF ref \in DOMAIN store
    THEN [id |-> store[ref], err |-> NoErr]
    ELSE [id |-> NoDigest, err |-> Err("NotFound", String(ref))]

\* The references a store can hold, in the lexical order of their strings.
LexicalRefs ==
    << Ref("busybox", "latest", ""), Ref("busybox", "t1", ""), Ref("busybox", "", RepoDigest),
       Ref("img0", "latest", ""), Ref("img0", "t1", ""), Ref("img0", "", RepoDigest),
       Ref("img1", "latest", "") >>

\* reference.Store.ReferencesByName: the associations of a name, sorted.
ReferencesByName(store, ref) ==
    LET IsAssoc(r) == r \in DOMAIN store /\ r.name = ref.name
        refsOfName == SelectSeq(LexicalRefs, IsAssoc)
    IN [i \in 1..Len(refsOfName) |-> [Ref |-> refsOfName[i], ID |-> store[refsOfName[i]]]]

\* --------------------------------------------------------------- getRefs

OCIRefChars == WordChars \cup {".", "-"}

\* ociRefRegexp.MatchString
MatchOCIRef(s) ==
    /\ Len(Chars(s)) >= 1
    /\ \A i \in 1..Len(Chars(s)) : Chars(s)[i] \in OCIRefChars

\* The --ref entries a request of the model can carry: name=value.
RefEntry(key, value) == [key |-> key, value |-> value]

RefEntries ==
    {RefEntry("busybox", "alt"), RefEntry("busybox", "in:valid"),
     RefEntry("busybox:latest", "t1"), RefEntry("busybox:latest", "-x"),
     RefEntry("img0:t1", "alt"), RefEntry("busybox@sha256:dd", "in:valid"),
     RefEntry("BAD", "alt")}

\* The --ref maps of a request (tarexporter.refs): one value for a key.
RefOverrides ==
    LET IsMap(es) == /\ Cardinality(es) <= MaxRefs
                     /\ \A e1, e2 \in es : e1.key = e2.key => e1 = e2
    IN {[k \in {e.key : e \in es} |-> (CHOOSE e \in es : e.key = k).value] :
            es \in {x \in SUBSET RefEntries : IsMap(x)}}

\* The orders in which a range over a map with these keys can visit them.
MapOrders(keys) ==
    {o \in [1..Cardinality(keys) -> keys] : \A i, j \in 1..Cardinality(keys) : o[i] = o[j] => i = j}

\* The iteration without the match against ociRefRegexp.
GetRefsEntryUnchecked(st, image, ref) ==
    LET parsed == ParseNamed(image)
        r == parsed.ref
        tagged == IF IsNamedTagged(r) THEN r ELSE WithTag(r, DefaultTag).ref
    IN IF st.err # NoErr THEN st
       ELSE IF parsed.err # NoErr THEN [st EXCEPT !.err = parsed.err]
       ELSE IF IsCanonical(r) THEN st
       ELSE [st EXCEPT !.refs = [k \in DOMAIN st.refs \cup {String(tagged)} |->
                                    IF k = String(tagged) THEN ref ELSE st.refs[k]]]

\* The iteration keeping the key as given, a bare name without its tag.
GetRefsEntryRaw(st, image, ref) ==
    LET parsed == ParseNamed(image)
        r == parsed.ref
        tagged == IF IsNamedTagged(r) THEN r ELSE WithTag(r, DefaultTag).ref
    IN IF st.err # NoErr THEN st
       ELSE IF parsed.err # NoErr THEN [st EXCEPT !.err = parsed.err]
       ELSE IF IsCanonical(r) THEN st
       ELSE IF ~MatchOCIRef(ref)
            THEN [st EXCEPT !.err = Err("InvalidReference", image \o "=" \o ref)]
       ELSE [st EXCEPT !.refs = [k \in DOMAIN st.refs \cup {image} |->
                                    IF k = image THEN ref ELSE st.refs[k]]]

\* One iteration of the loop of getRefs, on the entry image -> ref.
GetRefsEntry(st, image, ref) ==
    LET parsed == ParseNamed(image)
        r == parsed.ref
        tagged == IF IsNamedTagged(r) THEN r ELSE WithTag(r, DefaultTag).ref
    IN IF st.err # NoErr THEN st
       ELSE IF parsed.err # NoErr THEN [st EXCEPT !.err = parsed.err]
       ELSE IF IsCanonical(r) THEN st
       ELSE IF ~MatchOCIRef(ref)
            THEN [st EXCEPT !.err = Err("InvalidReference", image \o "=" \o ref)]
       ELSE [st EXCEPT !.refs = [k \in DOMAIN st.refs \cup {String(tagged)} |->
                                    IF k = String(tagged) THEN ref ELSE st.refs[k]]]

\* getRefs, its range over l.refs visiting the keys in the given order.
RECURSIVE GetRefsFrom(_, _, _, _)
GetRefsFrom(st, lrefs, order, i) ==
    IF i > Len(order) THEN st
    ELSE GetRefsFrom(GetRefsEntry(st, order[i], lrefs[order[i]]), lrefs, order, i + 1)

EmptyMap == [k \in {} |-> ""]

GetRefsIn(lrefs, order) ==
    LET st == GetRefsFrom([refs |-> EmptyMap, err |-> NoErr], lrefs, order, 1)
    IN IF st.err # NoErr THEN [refs |-> EmptyMap, err |-> st.err] ELSE st

\* ----------------------------------------------------------------- state

VARIABLES
    lrefs,      \* tarexporter.refs: the --ref entries of the request, as given
    is,         \* the image store:     image.ID -> configuration
    rs,         \* the reference store: reference -> image.ID
    pc,         \* where the request is
    err,        \* the error the request returned, NoErr when none
    nNames,     \* parseOCINames: how many names the loop has taken
    refs,       \* parseOCINames: the result of getRefs
    imgDescr,   \* parseOCINames: image.ID -> the references of its descriptor
    tags,       \* parseOCINames: the tags taken so far
    collected,  \* history: the references addAssoc has given a final tag
    searched,   \* history: the terms handed to the image store's Search
    failed,     \* history: the names whose lookup in a store failed
    ls,         \* the layer store: ChainID -> layer
    tempDir,    \* save: the staging directory, [exists, files]
    savedImages,    \* ociSaveSession.savedImages: image.ID -> manifest bytes
    diffIDsCache,   \* ociSaveSession.diffIDsCache: DiffID -> layerInfo
    todo,       \* save: the images the range over s.images has not visited
    cur,        \* save: the image the range is at, NoDigest between images
    refIdx,     \* save: the index in info.refs of the reference being saved
    manifest,   \* saveImage: the manifest m under construction
    layerIdx,   \* saveImage: the index i of the loop over RootFS.DiffIDs
    held,       \* the layer handles whose release the running function defers
    out,        \* save: the entries written to outStream
    putBlobs,   \* history: blob hex -> the number of PutBlob calls storing it
    pipe,       \* saveImage: the io.Pipe of the layer being streamed and its goroutine
    tmpDir,     \* load: the files of the extracted archive
    manifests,  \* loadOCI: the name of a refs/ file -> the manifest it points at
    mtodo,      \* loadOCI: the names the range over manifests has not visited
    manRef,        \* loadOCI: the key the range over manifests is at, "" when none
    rootFS,     \* loadOCI: the DiffIDs appended to rootFS so far
    imageIDsStr,    \* loadOCI: the progress lines collected
    loadOut,    \* load: what has been written to outStream
    events,     \* the image events logged
    cli         \* the docker load command: its options and where runLoad is

resolveVars == <<lrefs, pc, err, nNames, refs, imgDescr, tags, collected, searched, failed>>
storeVars == <<is, rs, ls>>
saveVars == <<tempDir, savedImages, diffIDsCache, todo, cur, refIdx, manifest, layerIdx, held, out, putBlobs>>
loadVars == <<tmpDir, manifests, mtodo, manRef, rootFS, imageIDsStr, loadOut, events>>
pipeVars == <<pipe>>
cliVars == <<cli>>

EmptyDescr == [id \in {} |-> <<>>]

\* ------------------------------------------------------- parseOCINames

\* addAssoc without the set of tags taken: a tag may be filed twice.
AddAssocAnyTag(st, id, ref) ==
    LET descr == IF id \in DOMAIN st.imgDescr THEN st.imgDescr
                 ELSE [i \in DOMAIN st.imgDescr \cup {id} |->
                          IF i = id THEN <<>> ELSE st.imgDescr[i]]
        st1 == [st EXCEPT !.imgDescr = descr]
        named == IF IsNamedTagged(ref) THEN ref ELSE WithTag(ref, DefaultTag).ref
        over == String(named) \in DOMAIN refs
        renamed == WithTag(named, refs[String(named)])
        tagged == IF over THEN renamed.ref ELSE named
        st2 == [st1 EXCEPT !.collected = @ \cup {[id |-> id, src |-> named, ref |-> tagged]}]
    IN IF ref = NilRef THEN st1
       ELSE IF IsCanonical(ref) THEN st1
       ELSE IF over /\ renamed.err # NoErr THEN [st1 EXCEPT !.err = renamed.err]
       ELSE IF \E i \in 1..Len(descr[id]) : String(tagged) = String(descr[id][i]) THEN st2
       ELSE [st2 EXCEPT !.tags = @ \cup {tagged.tag},
                        !.imgDescr = [descr EXCEPT ![id] = Append(@, tagged)]]

\* addAssoc reporting the whole reference where the code reports its tag.
AddAssocNamingRef(st, id, ref) ==
    LET descr == IF id \in DOMAIN st.imgDescr THEN st.imgDescr
                 ELSE [i \in DOMAIN st.imgDescr \cup {id} |->
                          IF i = id THEN <<>> ELSE st.imgDescr[i]]
        st1 == [st EXCEPT !.imgDescr = descr]
        named == IF IsNamedTagged(ref) THEN ref ELSE WithTag(ref, DefaultTag).ref
        over == String(named) \in DOMAIN refs
        renamed == WithTag(named, refs[String(named)])
        tagged == IF over THEN renamed.ref ELSE named
        st2 == [st1 EXCEPT !.collected = @ \cup {[id |-> id, src |-> named, ref |-> tagged]}]
    IN IF ref = NilRef THEN st1
       ELSE IF IsCanonical(ref) THEN st1
       ELSE IF over /\ renamed.err # NoErr THEN [st1 EXCEPT !.err = renamed.err]
       ELSE IF \E i \in 1..Len(descr[id]) : String(tagged) = String(descr[id][i]) THEN st2
       ELSE IF tagged.tag \in st.tags
            THEN [st2 EXCEPT !.err = Err("DuplicateReference", String(tagged))]
       ELSE [st2 EXCEPT !.tags = @ \cup {tagged.tag},
                        !.imgDescr = [descr EXCEPT ![id] = Append(@, tagged)]]

\* addAssoc: st carries imgDescr, tags, err and the histories.
AddAssoc(st, id, ref) ==
    LET descr == IF id \in DOMAIN st.imgDescr THEN st.imgDescr
                 ELSE [i \in DOMAIN st.imgDescr \cup {id} |->
                          IF i = id THEN <<>> ELSE st.imgDescr[i]]
        st1 == [st EXCEPT !.imgDescr = descr]
        named == IF IsNamedTagged(ref) THEN ref ELSE WithTag(ref, DefaultTag).ref
        over == String(named) \in DOMAIN refs
        renamed == WithTag(named, refs[String(named)])
        tagged == IF over THEN renamed.ref ELSE named
        st2 == [st1 EXCEPT !.collected = @ \cup {[id |-> id, src |-> named, ref |-> tagged]}]
    IN IF ref = NilRef THEN st1
       ELSE IF IsCanonical(ref) THEN st1
       ELSE IF over /\ renamed.err # NoErr THEN [st1 EXCEPT !.err = renamed.err]
       ELSE IF \E i \in 1..Len(descr[id]) : String(tagged) = String(descr[id][i]) THEN st2
       ELSE IF tagged.tag \in st.tags
            THEN [st2 EXCEPT !.err = Err("DuplicateReference", tagged.tag)]
       ELSE [st2 EXCEPT !.tags = @ \cup {tagged.tag},
                        !.imgDescr = [descr EXCEPT ![id] = Append(@, tagged)]]

\* The loop over the associations of a name-only reference (lines 148-152).
RECURSIVE AddAssocs(_, _, _)
AddAssocs(st, assocs, i) ==
    IF i > Len(assocs) \/ st.err # NoErr THEN st
    ELSE AddAssocs(AddAssoc(st, assocs[i].ID, assocs[i].Ref), assocs, i + 1)

\* A failed lookup that lets the loop go on.
LookupIgnored(st, name, e) == [st EXCEPT !.failed = @ \cup {name}]

\* A failed lookup of name in a store.
LookupFailed(st, name, e) == [st EXCEPT !.err = e, !.failed = @ \cup {name}]

\* l.is.Search(name) and addAssoc(imgID, nil).
SearchAssoc(st, name) ==
    LET found == ISSearch(is, name)
        st1 == [st EXCEPT !.searched = @ \cup {name}]
    IN IF found.err # NoErr THEN LookupFailed(st1, name, found.err)
       ELSE AddAssoc(st1, found.id, NilRef)

\* The iteration taking every tag of the name of a name:tag token.
ParseOCINameAllTags(st, name) ==
    LET parsed == ParseIDOrReference(name)
        got == ISGet(is, parsed.id)
        assocs == ReferencesByName(rs, parsed.ref)
        added == AddAssocs(st, assocs, 1)
        bound == RSGet(rs, parsed.ref)
    IN IF parsed.err # NoErr THEN [st EXCEPT !.err = parsed.err]
       ELSE IF parsed.id # NoDigest
            THEN IF got.err # NoErr THEN LookupFailed(st, name, got.err)
                 ELSE AddAssoc(st, parsed.id, NilRef)
       ELSE IF parsed.ref.name = CanonicalAlgo THEN SearchAssoc(st, name)
       ELSE IF IsNameOnly(parsed.ref) \/ IsNamedTagged(parsed.ref)
            THEN IF added.err # NoErr THEN added
                 ELSE IF Len(assocs) = 0 THEN SearchAssoc(added, name)
                 ELSE added
       ELSE IF bound.err # NoErr THEN LookupFailed(st, name, bound.err)
       ELSE AddAssoc(st, bound.id, parsed.ref)

\* One iteration of the loop over names (lines 121-171).
ParseOCIName(st, name) ==
    LET parsed == ParseIDOrReference(name)
        got == ISGet(is, parsed.id)
        assocs == ReferencesByName(rs, parsed.ref)
        added == AddAssocs(st, assocs, 1)
        bound == RSGet(rs, parsed.ref)
    IN IF parsed.err # NoErr THEN [st EXCEPT !.err = parsed.err]
       ELSE IF parsed.id # NoDigest
            THEN IF got.err # NoErr THEN LookupFailed(st, name, got.err)
                 ELSE AddAssoc(st, parsed.id, NilRef)
       ELSE IF parsed.ref.name = CanonicalAlgo THEN SearchAssoc(st, name)
       ELSE IF IsNameOnly(parsed.ref)
            THEN IF added.err # NoErr THEN added
                 ELSE IF Len(assocs) = 0 THEN SearchAssoc(added, name)
                 ELSE added
       ELSE IF bound.err # NoErr THEN LookupFailed(st, name, bound.err)
       ELSE AddAssoc(st, bound.id, parsed.ref)

\* The names a request of the model can list.
Names ==
    {"busybox", "img0", "img1", "busybox:latest", "busybox:t1", "img0:latest", "img0:t1",
     "busybox@sha256:dd", "sha256:bb", "ee", "notexists", "BAD", IDA.hex, IDX.hex}

ParseState ==
    [imgDescr |-> imgDescr, tags |-> tags, err |-> NoErr, collected |-> collected,
     searched |-> searched, failed |-> failed]

\* parseOCINames, lines 68-73: getRefs, its range taking the keys in any order.
GetRefs ==
    /\ pc = "getRefs"
    /\ \E order \in MapOrders(DOMAIN lrefs) :
          LET got == GetRefsIn(lrefs, order)
          IN /\ refs' = got.refs
             /\ err' = got.err
             /\ pc' = IF got.err # NoErr THEN "failed" ELSE "names"
    /\ UNCHANGED <<lrefs, nNames, imgDescr, tags, collected, searched, failed>>
    /\ UNCHANGED <<storeVars, saveVars, loadVars>>
    /\ UNCHANGED pipe
    /\ UNCHANGED cli

\* parseOCINames, lines 121-171: the loop takes the next name of the list.
ParseName ==
    /\ pc = "names"
    /\ nNames < MaxNames
    /\ \E name \in Names :
          LET st == ParseOCIName(ParseState, name)
          IN /\ nNames' = nNames + 1
             /\ err' = st.err
             /\ pc' = IF st.err # NoErr THEN "failed" ELSE "names"
             /\ imgDescr' = IF st.err # NoErr THEN EmptyDescr ELSE st.imgDescr
             /\ tags' = st.tags
             /\ collected' = st.collected
             /\ searched' = st.searched
             /\ failed' = st.failed
    /\ UNCHANGED <<lrefs, refs, storeVars, saveVars, loadVars>>
    /\ UNCHANGED pipe
    /\ UNCHANGED cli

\* parseOCINames, line 172: the list is exhausted.
ParseReturn ==
    /\ pc = "names"
    /\ pc' = "parsed"
    /\ UNCHANGED <<lrefs, err, nNames, refs, imgDescr, tags, collected, searched, failed>>
    /\ UNCHANGED <<storeVars, saveVars, loadVars>>
    /\ UNCHANGED pipe
    /\ UNCHANGED cli

\* ------------------------------------------------------ the layer store

\* layerStore.Get: one more reference on the layer of the chain.
LSGet(store, chain) ==
    IF chain \in DOMAIN store
    THEN [store |-> [store EXCEPT ![chain].refCount = @ + 1], err |-> NoErr]
    ELSE [store |-> store, err |-> Err("LayerNotFound", chain.hex)]

\* layerStore.Release (releaseLayer): one reference less; a layer nothing
\* refers to any more is deleted and its parent released in turn.
RECURSIVE LSRelease(_, _)
LSRelease(store, chain) ==
    IF chain \notin DOMAIN store THEN store
    ELSE IF store[chain].refCount > 1
         THEN [store EXCEPT ![chain].refCount = @ - 1]
    ELSE LET rest == [c \in DOMAIN store \ {chain} |-> store[c]]
         IN IF store[chain].parent = NoDigest THEN rest
            ELSE LSRelease(rest, store[chain].parent)

\* A return that runs none of the deferred releases.
ReleaseNone(store, handles) == store

\* Deferred releases that run twice for every handle.
RECURSIVE ReleaseTwice(_, _)
ReleaseTwice(store, handles) ==
    IF handles = <<>> THEN store
    ELSE ReleaseTwice(LSRelease(LSRelease(store, handles[Len(handles)]), handles[Len(handles)]),
                      SubSeq(handles, 1, Len(handles) - 1))

\* The deferred layer.ReleaseAndLog calls of a returning function.
RECURSIVE ReleaseAll(_, _)
ReleaseAll(store, handles) ==
    IF handles = <<>> THEN store
    ELSE ReleaseAll(LSRelease(store, handles[Len(handles)]),
                    SubSeq(handles, 1, Len(handles) - 1))

\* ------------------------------------------------- the OCI image layout

MediaTypeImageManifest == "application/vnd.oci.image.manifest.v1+json"
MediaTypeImageConfig == "application/vnd.oci.image.config.v1+json"
MediaTypeImageLayer == "application/vnd.oci.image.layer.v1.tar+gzip"

\* json.Marshal and the decoding of a JSON document.
MarshalJSON(v) == [json |-> v]
IsJSON(b) == DOMAIN b = {"json"}

\* archive.CompressStream(_, archive.Gzip) and archive.DecompressStream.
Gzip(tar) == [gzip |-> tar]
IsGzip(b) == DOMAIN b = {"gzip"}

Size(b) == Len(ToString(b))

Descriptor(mediaType, digest, size) ==
    [MediaType |-> mediaType, Digest |-> digest, Size |-> size]

\* The files of a directory: path -> content.
Path(dir, name) == [dir |-> dir, name |-> name]
BlobPath(digest) == Path("blobs/" \o digest.algo, digest.hex)
RefPath(name) == Path("refs", name)
LayoutPath == Path("", "oci-layout")

NoFiles == [p \in {} |-> ""]

WriteFile(files, path, content) ==
    [p \in DOMAIN files \cup {path} |-> IF p = path THEN content ELSE files[p]]

\* ImageDestination.PutBlob: the stream is stored under its digest.
PutBlob(files, stream) == WriteFile(files, BlobPath(Digest(stream)), stream)

\* ImageDestination.PutManifest of the destination of reference name: the
\* manifest blob, the oci-layout marker and the descriptor refs/<name>.
PutManifest(files, name, m) ==
    LET desc == Descriptor(MediaTypeImageManifest, Digest(m), Size(m))
        withBlob == WriteFile(files, BlobPath(Digest(m)), m)
        withLayout == WriteFile(withBlob, LayoutPath, [imageLayoutVersion |-> "1.0.0"])
    IN WriteFile(withLayout, RefPath(name), MarshalJSON(desc))

\* archive.Tar: the entries of the directory, each file once.
RECURSIVE TarEntries(_, _)
TarEntries(files, paths) ==
    IF paths = {} THEN <<>>
    ELSE LET p == CHOOSE q \in paths : TRUE
         IN <<[path |-> p, content |-> files[p]]>> \o TarEntries(files, paths \ {p})

Tar(files) == TarEntries(files, DOMAIN files)

\* ------------------------------------------------------ ociSaveSession

NoDir == [exists |-> FALSE, files |-> NoFiles]
NoManifest == [SchemaVersion |-> 0, MediaType |-> "", Config |-> Descriptor("", NoDigest, 0), Layers |-> <<>>]
EmptyCache == [d \in {} |-> [digest |-> NoDigest, size |-> 0]]
EmptySaved == [id \in {} |-> MarshalJSON(NoManifest)]
NoPuts == [h \in {} |-> 0]

Counted(puts, stream) ==
    LET h == Digest(stream).hex
    IN [x \in DOMAIN puts \cup {h} |-> IF x \in DOMAIN puts THEN puts[x] + (IF x = h THEN 1 ELSE 0) ELSE 1]

\* Every destination named after the image.
DestNameOfImage == cur.hex

\* The name of the destination of the reference the range is at (lines 186, 200).
DestName ==
    IF Len(imgDescr[cur]) = 0 THEN cur.hex ELSE imgDescr[cur][refIdx].tag

\* save returns an error and leaves the staging directory behind.
SaveFailsKeepingDir(e, store, handles) ==
    /\ pc' = "saveFailed"
    /\ err' = e
    /\ ls' = ReleaseAll(store, handles)
    /\ held' = <<>>
    /\ tempDir' = tempDir

\* save returns an error: the deferred calls run (lines 182, 270).
SaveFailsWith(e, store, handles) ==
    /\ pc' = "saveFailed"
    /\ err' = e
    /\ ls' = ReleaseAll(store, handles)
    /\ held' = <<>>
    /\ tempDir' = NoDir

SaveFails(e) == SaveFailsWith(e, ls, held)

\* saveImage returned nil: the range goes on to the next reference or image.
SaveImageReturns ==
    /\ pc' = "images"
    /\ ls' = ReleaseAll(ls, held)
    /\ held' = <<>>
    /\ IF refIdx < Len(imgDescr[cur])
       THEN refIdx' = refIdx + 1 /\ cur' = cur
       ELSE refIdx' = 1 /\ cur' = NoDigest

\* save, lines 176-182: the caches and the staging directory.
Save ==
    /\ pc = "parsed"
    /\ diffIDsCache' = EmptyCache
    /\ savedImages' = EmptySaved
    /\ \E ok \in BOOLEAN :
          IF ok
          THEN /\ tempDir' = [exists |-> TRUE, files |-> NoFiles]
               /\ pc' = "images"
               /\ todo' = DOMAIN imgDescr
               /\ UNCHANGED err
          ELSE /\ pc' = "saveFailed"
               /\ err' = Err("IOError", "TempDir")
               /\ UNCHANGED <<tempDir, todo>>
    /\ UNCHANGED <<lrefs, nNames, refs, imgDescr, tags, collected, searched, failed>>
    /\ UNCHANGED <<storeVars, cur, refIdx, manifest, layerIdx, held, out, putBlobs, loadVars>>
    /\ UNCHANGED pipe
    /\ UNCHANGED cli

\* save, line 184: the range over s.images comes to an image, in any order.
SaveRange ==
    /\ pc = "images"
    /\ cur = NoDigest
    /\ \E id \in todo :
          /\ cur' = id
          /\ todo' = todo \ {id}
    /\ refIdx' = 1
    /\ UNCHANGED <<resolveVars, storeVars>>
    /\ UNCHANGED <<tempDir, savedImages, diffIDsCache, manifest, layerIdx, held, out, putBlobs, loadVars>>
    /\ UNCHANGED pipe
    /\ UNCHANGED cli

\* A session that keeps no record of the images it saved.
NeverSaved(id) == FALSE

\* The lookup in savedImages (line 226).
IsSaved(id) == id \in DOMAIN savedImages

\* saveImage, lines 226-232: the image was saved under another reference.
SaveImageRef ==
    /\ pc = "images"
    /\ cur # NoDigest
    /\ IsSaved(cur)
    /\ \E ok \in BOOLEAN :
          IF ok
          THEN /\ tempDir' = [tempDir EXCEPT !.files = PutManifest(@, DestName, savedImages[cur])]
               /\ SaveImageReturns
               /\ UNCHANGED err
          ELSE /\ SaveFails(Err("IOError", "PutManifest"))
               /\ UNCHANGED <<cur, refIdx>>
    /\ UNCHANGED <<lrefs, nNames, refs, imgDescr, tags, collected, searched, failed, is, rs>>
    /\ UNCHANGED <<savedImages, diffIDsCache, todo, manifest, layerIdx, out, putBlobs, loadVars>>
    /\ UNCHANGED pipe
    /\ UNCHANGED cli

\* A configuration encoded anew from the image: other bytes, the same layers.
ReEncoded(config) == [config |-> "re-encoded", rootfs |-> config.rootfs]

\* img.RawJSON(): the bytes the image store keeps for the image.
RawJSON(config) == config

\* saveImage without the refusal of an image that has no layer.
SaveImageConfigAnyRootFS ==
    /\ pc = "images"
    /\ cur # NoDigest
    /\ ~IsSaved(cur)
    /\ LET img == ISGet(is, cur)
           configJSON == RawJSON(img.config)
       IN \/ /\ img.err # NoErr
             /\ SaveFails(img.err)
             /\ UNCHANGED <<manifest, layerIdx, putBlobs>>
          \/ /\ img.err = NoErr
             /\ SaveFails(Err("IOError", "PutBlob"))
             /\ UNCHANGED <<manifest, layerIdx, putBlobs>>
          \/ /\ img.err = NoErr
             /\ tempDir' = [tempDir EXCEPT !.files = PutBlob(@, configJSON)]
             /\ putBlobs' = Counted(putBlobs, configJSON)
             /\ manifest' = [SchemaVersion |-> 2,
                             MediaType |-> MediaTypeImageManifest,
                             Config |-> Descriptor(MediaTypeImageConfig, Digest(configJSON),
                                                   Size(configJSON)),
                             Layers |-> <<>>]
             /\ layerIdx' = 1
             /\ pc' = "layers"
             /\ UNCHANGED <<err, ls, held>>
    /\ UNCHANGED <<lrefs, nNames, refs, imgDescr, tags, collected, searched, failed, is, rs>>
    /\ UNCHANGED <<savedImages, diffIDsCache, todo, cur, refIdx, out, loadVars>>
    /\ UNCHANGED pipe
    /\ UNCHANGED cli

\* saveImage, lines 234-260: the image, its configuration blob, the manifest.
SaveImageConfig ==
    /\ pc = "images"
    /\ cur # NoDigest
    /\ ~IsSaved(cur)
    /\ LET img == ISGet(is, cur)
           configJSON == RawJSON(img.config)
       IN \/ /\ img.err # NoErr
             /\ SaveFails(img.err)
             /\ UNCHANGED <<manifest, layerIdx, putBlobs>>
          \/ /\ img.err = NoErr
             /\ Len(configJSON.rootfs) = 0
             /\ SaveFails(Err("EmptyExport", "empty export - not implemented"))
             /\ UNCHANGED <<manifest, layerIdx, putBlobs>>
          \/ /\ img.err = NoErr
             /\ Len(configJSON.rootfs) # 0
             /\ SaveFails(Err("IOError", "PutBlob"))
             /\ UNCHANGED <<manifest, layerIdx, putBlobs>>
          \/ /\ img.err = NoErr
             /\ Len(configJSON.rootfs) # 0
             /\ tempDir' = [tempDir EXCEPT !.files = PutBlob(@, configJSON)]
             /\ putBlobs' = Counted(putBlobs, configJSON)
             /\ manifest' = [SchemaVersion |-> 2,
                             MediaType |-> MediaTypeImageManifest,
                             Config |-> Descriptor(MediaTypeImageConfig, Digest(configJSON),
                                                   Size(configJSON)),
                             Layers |-> <<>>]
             /\ layerIdx' = 1
             /\ pc' = "layers"
             /\ UNCHANGED <<err, ls, held>>
    /\ UNCHANGED <<lrefs, nNames, refs, imgDescr, tags, collected, searched, failed, is, rs>>
    /\ UNCHANGED <<savedImages, diffIDsCache, todo, cur, refIdx, out, loadVars>>
    /\ UNCHANGED pipe
    /\ UNCHANGED cli

\* The layerInfo whose digest is that of the uncompressed layer.
LayerInfoOfTar(cache, l, stream) ==
    IF l.diffID \in DOMAIN cache THEN cache[l.diffID]
    ELSE [digest |-> l.diffID, size |-> Size(l.tar)]

\* The layerInfo computed from the stream, the cache being ignored.
LayerInfoUncached(cache, l, stream) == [digest |-> Digest(stream), size |-> Size(stream)]

\* The layerInfo of a layer (lines 276-304): the cached one, or the digest and
\* size PutBlob returned for the stream it read from the pipe.
LayerInfo(cache, l, stream) ==
    IF l.diffID \in DOMAIN cache THEN cache[l.diffID]
    ELSE [digest |-> Digest(stream), size |-> Size(stream)]

\* The top layer of the image, whatever the index of the loop.
CurChainTop == ChainID(is[cur].rootfs)

\* The layer the loop over RootFS.DiffIDs is at (line 266).
CurChain == ChainID(SubSeq(is[cur].rootfs, 1, layerIdx))

\* The first got chunks of the tar stream of a layer: the whole tar when all
\* NChunks were read.
Prefix(tar, got) ==
    IF got = NChunks THEN tar ELSE tar \o "[:" \o ToString(got) \o "]"

\* io.Pipe() and the goroutine of lines 294-298.  got: the chunks of the layer
\* that went through the pipe; cut: bufin.WriteTo returned on a read error;
\* phase: where the goroutine is; wClosed, rClosed: the calls of pw.Close and
\* pr.Close.
Pipe(got, cut, phase, wClosed, rClosed) ==
    [got |-> got, cut |-> cut, phase |-> phase, wClosed |-> wClosed, rClosed |-> rClosed]

NoPipe == Pipe(0, FALSE, "none", 0, 0)

\* saveImage, lines 262-293: one iteration of the loop over RootFS.DiffIDs, up
\* to the start of the goroutine for a layer the cache does not hold.
SaveLayer ==
    /\ pc = "layers"
    /\ layerIdx <= Len(is[cur].rootfs)
    /\ LET got == LSGet(ls, CurChain)
           handles == Append(held, CurChain)
           l == ls[CurChain]
           info == LayerInfo(diffIDsCache, l, Gzip(l.tar))
           descriptor == Descriptor(MediaTypeImageLayer, info.digest, info.size)
       IN \/ /\ got.err # NoErr
             /\ SaveFails(got.err)
             /\ UNCHANGED <<manifest, layerIdx, pipe>>
          \/ /\ got.err = NoErr
             /\ l.diffID \in DOMAIN diffIDsCache
             /\ ls' = got.store
             /\ held' = handles
             /\ manifest' = [manifest EXCEPT !.Layers = Append(@, descriptor)]
             /\ layerIdx' = layerIdx + 1
             /\ UNCHANGED <<pc, err, tempDir, pipe>>
          \/ /\ got.err = NoErr
             /\ l.diffID \notin DOMAIN diffIDsCache
             /\ SaveFailsWith(Err("IOError", "TarStream"), got.store, handles)
             /\ UNCHANGED <<manifest, layerIdx, pipe>>
          \/ /\ got.err = NoErr
             /\ l.diffID \notin DOMAIN diffIDsCache
             /\ SaveFailsWith(Err("IOError", "CompressStream"), got.store, handles)
             /\ pipe' = Pipe(0, FALSE, "unstarted", 0, 0)
             /\ UNCHANGED <<manifest, layerIdx>>
          \/ /\ got.err = NoErr
             /\ l.diffID \notin DOMAIN diffIDsCache
             /\ ls' = got.store
             /\ held' = handles
             /\ pipe' = Pipe(0, FALSE, "copy", 0, 0)
             /\ pc' = "pipe"
             /\ UNCHANGED <<err, tempDir, manifest, layerIdx>>
    /\ UNCHANGED <<lrefs, nNames, refs, imgDescr, tags, collected, searched, failed, is, rs>>
    /\ UNCHANGED <<savedImages, diffIDsCache, todo, cur, refIdx, out, putBlobs, loadVars, cliVars>>

\* The goroutine, line 295: bufin.WriteTo(gw) hands the next chunk to the
\* reader of the pipe, or returns on a read error of the layer, which the
\* goroutine drops.  A write to the pipe waits for PutBlob to read it.
GorCopy ==
    /\ pc = "pipe"
    /\ pipe.phase = "copy"
    /\ \/ pipe' = [pipe EXCEPT !.got = @ + 1,
                               !.phase = IF pipe.got + 1 = NChunks THEN "flush" ELSE "copy"]
       \/ pipe' = [pipe EXCEPT !.cut = TRUE, !.phase = "flush"]
    /\ UNCHANGED <<resolveVars, storeVars, saveVars, loadVars, cliVars>>

\* The goroutine, line 296: gw.Close() writes the end of the gzip stream to
\* the pipe, which waits for PutBlob to read it.
GorFlush ==
    /\ pc = "pipe"
    /\ pipe.phase = "flush"
    /\ pipe' = [pipe EXCEPT !.phase = "close"]
    /\ UNCHANGED <<resolveVars, storeVars, saveVars, loadVars, cliVars>>

\* The goroutine, line 297: pw.Close().
GorClose ==
    /\ pipe.phase = "close"
    /\ pipe' = [pipe EXCEPT !.wClosed = @ + 1, !.phase = "done"]
    /\ UNCHANGED <<resolveVars, storeVars, saveVars, loadVars, cliVars>>

\* saveImage, lines 300-312: ociDest.PutBlob(pr) returns, with an error at any
\* point of the stream or, once the write end is closed, with the digest and
\* size of what it read.
SavePutBlob ==
    /\ pc = "pipe"
    /\ LET l == ls[CurChain]
           stream == Gzip(Prefix(l.tar, pipe.got))
           info == LayerInfo(diffIDsCache, l, stream)
           descriptor == Descriptor(MediaTypeImageLayer, info.digest, info.size)
       IN \/ /\ SaveFails(Err("IOError", "PutBlob"))
             /\ UNCHANGED <<diffIDsCache, manifest, layerIdx, putBlobs>>
          \/ /\ pipe.wClosed = 1
             /\ tempDir' = [tempDir EXCEPT !.files = PutBlob(@, stream)]
             /\ putBlobs' = Counted(putBlobs, stream)
             /\ diffIDsCache' = [d \in DOMAIN diffIDsCache \cup {l.diffID} |->
                                    IF d = l.diffID THEN info ELSE diffIDsCache[d]]
             /\ manifest' = [manifest EXCEPT !.Layers = Append(@, descriptor)]
             /\ layerIdx' = layerIdx + 1
             /\ pc' = "layers"
             /\ UNCHANGED <<err, ls, held>>
    /\ UNCHANGED <<lrefs, nNames, refs, imgDescr, tags, collected, searched, failed, is, rs>>
    /\ UNCHANGED <<savedImages, todo, cur, refIdx, out, loadVars, pipe, cliVars>>

\* saveImage, lines 315-326: the manifest and the reference to it.
SaveManifest ==
    /\ pc = "layers"
    /\ layerIdx > Len(is[cur].rootfs)
    /\ LET mJSON == MarshalJSON(manifest)
       IN \E ok \in BOOLEAN :
             IF ok
             THEN /\ tempDir' = [tempDir EXCEPT !.files = PutManifest(@, DestName, mJSON)]
                  /\ savedImages' = [id \in DOMAIN savedImages \cup {cur} |->
                                        IF id = cur THEN mJSON ELSE savedImages[id]]
                  /\ SaveImageReturns
                  /\ UNCHANGED err
             ELSE /\ SaveFails(Err("IOError", "PutManifest"))
                  /\ UNCHANGED <<savedImages, cur, refIdx>>
    /\ UNCHANGED <<lrefs, nNames, refs, imgDescr, tags, collected, searched, failed, is, rs>>
    /\ UNCHANGED <<diffIDsCache, todo, manifest, layerIdx, out, putBlobs, loadVars>>
    /\ UNCHANGED pipe
    /\ UNCHANGED cli

\* The archive written while images are still to be staged.
SaveTarEarly ==
    /\ pc = "images"
    /\ cur = NoDigest
    /\ tempDir' = NoDir
    /\ \/ /\ pc' = "saveFailed"
          /\ err' = Err("IOError", "Tar")
          /\ out' = out
       \/ /\ pc' = "saveFailed"
          /\ err' = Err("IOError", "Copy")
          /\ \E n \in 0..(Len(Tar(tempDir.files)) - 1) : out' = SubSeq(Tar(tempDir.files), 1, n)
       \/ /\ pc' = "saved"
          /\ err' = err
          /\ out' = Tar(tempDir.files)
    /\ UNCHANGED <<lrefs, nNames, refs, imgDescr, tags, collected, searched, failed, storeVars>>
    /\ UNCHANGED <<savedImages, diffIDsCache, todo, cur, refIdx, manifest, layerIdx, held, putBlobs, loadVars>>
    /\ UNCHANGED pipe
    /\ UNCHANGED cli

\* save, lines 215-222: the staged directory goes to outStream as one tar.
SaveTar ==
    /\ pc = "images"
    /\ cur = NoDigest
    /\ todo = {}
    /\ tempDir' = NoDir
    /\ \/ /\ pc' = "saveFailed"
          /\ err' = Err("IOError", "Tar")
          /\ out' = out
       \/ /\ pc' = "saveFailed"
          /\ err' = Err("IOError", "Copy")
          /\ \E n \in 0..(Len(Tar(tempDir.files)) - 1) : out' = SubSeq(Tar(tempDir.files), 1, n)
       \/ /\ pc' = "saved"
          /\ err' = err
          /\ out' = Tar(tempDir.files)
    /\ UNCHANGED <<lrefs, nNames, refs, imgDescr, tags, collected, searched, failed, storeVars>>
    /\ UNCHANGED <<savedImages, diffIDsCache, todo, cur, refIdx, manifest, layerIdx, held, putBlobs, loadVars>>
    /\ UNCHANGED pipe
    /\ UNCHANGED cli

\* ---------------------------------------------------------------- loadOCI

NoManifests == [n \in {} |-> NoManifest]
NoImages == [id \in {} |-> Config("", <<>>)]
NoLayers == [c \in {} |-> Layer("", NoDigest, 0)]
NoRefs == [r \in {} |-> NoDigest]

\* The extraction of a tar into a directory.
Untar(entries) ==
    [p \in {entries[i].path : i \in 1..Len(entries)} |->
        LET last == CHOOSE i \in 1..Len(entries) :
                        /\ entries[i].path = p
                        /\ \A j \in (i + 1)..Len(entries) : entries[j].path # p
        IN entries[last].content]

\* The names of the files under refs/.
RefFiles(files) == {p.name : p \in {q \in DOMAIN files : q.dir = "refs"}}

\* image.NewFromJSON: a configuration without a rootfs is refused.
NewFromJSON(config) ==
    IF "rootfs" \in DOMAIN config
    THEN [RootFS |-> config.rootfs, err |-> NoErr]
    ELSE [RootFS |-> <<>>, err |-> Err("InvalidConfig", "invalid image JSON, no RootFS key")]

\* image.Store.Create: the image of the configuration, under the digest of its
\* bytes; a new image takes a reference on its top layer.
ISCreate(images, layers, config) ==
    LET id == IDFromConfig(config)
        top == ChainID(NewFromJSON(config).RootFS)
        got == LSGet(layers, top)
    IN IF NewFromJSON(config).err # NoErr
       THEN [id |-> NoDigest, is |-> images, ls |-> layers, err |-> NewFromJSON(config).err]
       ELSE IF id \in DOMAIN images
       THEN [id |-> id, is |-> images, ls |-> layers, err |-> NoErr]
       ELSE IF top # NoDigest /\ got.err # NoErr
       THEN [id |-> NoDigest, is |-> images, ls |-> layers, err |-> got.err]
       ELSE [id |-> id,
             is |-> [i \in DOMAIN images \cup {id} |-> IF i = id THEN config ELSE images[i]],
             ls |-> IF top = NoDigest THEN layers ELSE got.store,
             err |-> NoErr]

\* layerStore.Register: the layer of the stream on top of the parent chain,
\* returned with one reference held.
LSRegister(store, tar, parent) ==
    LET diffID == DiffID(tar)
        chain == IF parent = NoDigest THEN diffID
                 ELSE Digest([parent |-> parent, diff |-> diffID])
    IN IF parent # NoDigest /\ parent \notin DOMAIN store
       THEN [store |-> store, chain |-> NoDigest, err |-> Err("LayerNotFound", parent.hex)]
       ELSE IF chain \in DOMAIN store
       THEN [store |-> [store EXCEPT ![chain].refCount = @ + 1], chain |-> chain, err |-> NoErr]
       ELSE [store |-> [c \in DOMAIN store \cup {chain} |->
                           IF c = chain THEN Layer(tar, parent, 1)
                           ELSE IF c = parent THEN [store[c] EXCEPT !.refCount = @ + 1]
                           ELSE store[c]],
             chain |-> chain, err |-> NoErr]

\* tarexporter.loadLayer: the blob of the path, decompressed, is registered on
\* top of the layers of rootFS.
LoadLayerFile(store, files, path, parents) ==
    IF path \notin DOMAIN files
    THEN [store |-> store, chain |-> NoDigest, err |-> Err("IOError", "open")]
    ELSE IF ~IsGzip(files[path])
    THEN [store |-> store, chain |-> NoDigest, err |-> Err("IOError", "untar")]
    ELSE LSRegister(store, files[path].gzip, ChainID(parents))

\* loadOCI returns an error: the deferred releases run (line 94).
LoadFails(e, store, handles) ==
    /\ pc' = "loadFailed"
    /\ err' = e
    /\ ls' = ReleaseAll(store, handles)
    /\ held' = <<>>

\* The archive save wrote is handed to the load of a daemon: the one that
\* saved it, or one whose stores are empty.  It is extracted to tmpDir.
Load ==
    /\ pc = "saved"
    /\ pc' = "refs"
    /\ tmpDir' = Untar(out)
    /\ \/ UNCHANGED <<is, rs, ls>>
       \/ is' = NoImages /\ rs' = NoRefs /\ ls' = NoLayers
    /\ UNCHANGED <<lrefs, err, nNames, refs, imgDescr, tags, collected, searched, failed>>
    /\ UNCHANGED <<saveVars, manifests, mtodo, manRef, rootFS, imageIDsStr, loadOut, events>>
    /\ UNCHANGED pipe
    /\ UNCHANGED cli

\* The blobs of a directory.
BlobPaths(files) == {p \in DOMAIN files : p.dir = "blobs/" \o CanonicalAlgo}

\* Other bytes for a blob: a layer with other content, a configuration with
\* other content and the same layers, a manifest with another schema version
\* or without its last layer.
Perturbations(b) ==
    IF IsGzip(b) THEN {Gzip(b.gzip \o "!")}
    ELSE IF IsJSON(b)
         THEN {MarshalJSON([b.json EXCEPT !.SchemaVersion = @ + 1]),
               MarshalJSON([b.json EXCEPT !.Layers = SubSeq(@, 1, Len(@) - 1)])}
    ELSE {[b EXCEPT !.config = @ \o "!"]}

\* The archive reaches loadOCI with the bytes of one blob changed and its
\* name, the digest the archive declares for it, kept.
Tamper ==
    /\ pc = "refs"
    /\ tmpDir = Untar(out)
    /\ \E p \in BlobPaths(tmpDir) :
          \E b \in Perturbations(tmpDir[p]) :
             tmpDir' = [tmpDir EXCEPT ![p] = b]
    /\ UNCHANGED <<resolveVars, storeVars, saveVars, pipeVars, cliVars>>
    /\ UNCHANGED <<manifests, mtodo, manRef, rootFS, imageIDsStr, loadOut, events>>

\* One refs/ file of the walk (lines 33-55): the manifest it points at.
WalkRef(files, name) ==
    LET descriptor == files[RefPath(name)]
        manifestPath == BlobPath(descriptor.json.Digest)
    IN IF ~IsJSON(descriptor) THEN [man |-> NoManifest, err |-> Err("InvalidJSON", name)]
       ELSE IF manifestPath \notin DOMAIN files
            THEN [man |-> NoManifest, err |-> Err("IOError", "open")]
       ELSE IF ~IsJSON(files[manifestPath])
            THEN [man |-> NoManifest, err |-> Err("InvalidJSON", name)]
       ELSE [man |-> files[manifestPath].json, err |-> NoErr]

\* loadOCI, lines 24-59: the walk over refs/ fills the map of manifests, or
\* returns the error of a file it cannot open or decode.
LoadRefs ==
    /\ pc = "refs"
    /\ \E e \in {WalkRef(tmpDir, name).err : name \in RefFiles(tmpDir)}
                    \cup {NoErr, Err("IOError", "walk")} :
          IF e # NoErr
          THEN /\ LoadFails(e, ls, held)
               /\ UNCHANGED <<manifests, mtodo>>
          ELSE /\ \A name \in RefFiles(tmpDir) : WalkRef(tmpDir, name).err = NoErr
               /\ manifests' = [name \in RefFiles(tmpDir) |-> WalkRef(tmpDir, name).man]
               /\ mtodo' = RefFiles(tmpDir)
               /\ pc' = "manifests"
               /\ UNCHANGED <<err, ls, held>>
    /\ UNCHANGED <<lrefs, nNames, refs, imgDescr, tags, collected, searched, failed, is, rs>>
    /\ UNCHANGED <<tempDir, savedImages, diffIDsCache, todo, cur, refIdx, manifest, layerIdx, out, putBlobs>>
    /\ UNCHANGED <<tmpDir, manRef, rootFS, imageIDsStr, loadOut, events>>
    /\ UNCHANGED pipe
    /\ UNCHANGED cli

\* The configuration blob of a manifest of the archive (lines 66-70).
ReadConfig(files, m) ==
    IF BlobPath(m.Config.Digest) \in DOMAIN files
    THEN [config |-> files[BlobPath(m.Config.Digest)], err |-> NoErr]
    ELSE [config |-> Config("", <<>>), err |-> Err("IOError", "ReadFile")]

\* Lines 66-80: the configuration of manifest m is read, parsed and compared
\* with the layers of the manifest.
CheckManifest(files, m) ==
    LET read == ReadConfig(files, m)
        img == NewFromJSON(read.config)
    IN IF read.err # NoErr THEN read.err
       ELSE IF img.err # NoErr THEN img.err
       ELSE IF Len(m.Layers) # Len(img.RootFS)
            THEN Err("InvalidManifest", "layers length mismatch")
       ELSE NoErr

\* loadOCI, lines 63-80: the range over manifests comes to a key, in any order.
LoadManifest ==
    /\ pc = "manifests"
    /\ \E name \in mtodo :
          \E e \in {CheckManifest(tmpDir, manifests[name]), Err("IOError", "ReadFile")} :
             IF e # NoErr
             THEN /\ LoadFails(e, ls, held)
                  /\ UNCHANGED <<mtodo, manRef, rootFS, layerIdx>>
             ELSE /\ manRef' = name
                  /\ mtodo' = mtodo \ {name}
                  /\ rootFS' = <<>>
                  /\ layerIdx' = 1
                  /\ pc' = "loadLayers"
                  /\ UNCHANGED <<err, ls, held>>
    /\ UNCHANGED <<lrefs, nNames, refs, imgDescr, tags, collected, searched, failed, is, rs>>
    /\ UNCHANGED <<tempDir, savedImages, diffIDsCache, todo, cur, refIdx, manifest, out, putBlobs>>
    /\ UNCHANGED <<tmpDir, manifests, imageIDsStr, loadOut, events>>
    /\ UNCHANGED pipe
    /\ UNCHANGED cli

\* The configuration of the manifest the range is at.
LoadConfig == ReadConfig(tmpDir, manifests[manRef]).config

\* The layer obtained for index i, a blob being registered with no parent.
ObtainLayerOnBase(store, handles, files, m, diffIDs, parents, i) ==
    LET diffID == diffIDs[i]
        chain == ChainID(Append(parents, diffID))
        got == LSGet(store, chain)
        loaded == LoadLayerFile(store, files, BlobPath(m.Layers[i].Digest), <<>>)
        newChain == IF got.err = NoErr THEN chain ELSE loaded.chain
        newStore == IF got.err = NoErr THEN got.store ELSE loaded.store
    IN IF got.err # NoErr /\ loaded.err # NoErr
       THEN [store |-> store, handles |-> handles, err |-> loaded.err]
       ELSE IF diffID # newStore[newChain].diffID
       THEN [store |-> newStore, handles |-> Append(handles, newChain),
             err |-> Err("InvalidDiffID", diffID.hex)]
       ELSE [store |-> newStore, handles |-> Append(handles, newChain), err |-> NoErr]

\* The layer obtained for index i without the comparison of its DiffID.
ObtainLayerUnchecked(store, handles, files, m, diffIDs, parents, i) ==
    LET diffID == diffIDs[i]
        chain == ChainID(Append(parents, diffID))
        got == LSGet(store, chain)
        loaded == LoadLayerFile(store, files, BlobPath(m.Layers[i].Digest), parents)
        newChain == IF got.err = NoErr THEN chain ELSE loaded.chain
        newStore == IF got.err = NoErr THEN got.store ELSE loaded.store
    IN IF got.err # NoErr /\ loaded.err # NoErr
       THEN [store |-> store, handles |-> handles, err |-> loaded.err]
       ELSE [store |-> newStore, handles |-> Append(handles, newChain), err |-> NoErr]

\* Lines 82-97 for layer i of the manifest: the layer of the chain is taken
\* from the layer store or, when it has none, loaded from the blob of the
\* manifest; it must have the DiffID of the configuration.
ObtainLayer(store, handles, files, m, diffIDs, parents, i) ==
    LET diffID == diffIDs[i]
        chain == ChainID(Append(parents, diffID))
        got == LSGet(store, chain)
        loaded == LoadLayerFile(store, files, BlobPath(m.Layers[i].Digest), parents)
        newChain == IF got.err = NoErr THEN chain ELSE loaded.chain
        newStore == IF got.err = NoErr THEN got.store ELSE loaded.store
    IN IF got.err # NoErr /\ loaded.err # NoErr
       THEN [store |-> store, handles |-> handles, err |-> loaded.err]
       ELSE IF diffID # newStore[newChain].diffID
       THEN [store |-> newStore, handles |-> Append(handles, newChain),
             err |-> Err("InvalidDiffID", diffID.hex)]
       ELSE [store |-> newStore, handles |-> Append(handles, newChain), err |-> NoErr]

\* loadOCI, lines 81-99: one iteration of the loop over the DiffIDs.
LoadLayer ==
    /\ pc = "loadLayers"
    /\ layerIdx <= Len(NewFromJSON(LoadConfig).RootFS)
    /\ LET result == ObtainLayer(ls, held, tmpDir, manifests[manRef],
                                 NewFromJSON(LoadConfig).RootFS, rootFS, layerIdx)
           ioError == [store |-> ls, handles |-> held, err |-> Err("IOError", "open")]
       IN \E o \in {result} \cup
                   (IF ChainID(Append(rootFS, NewFromJSON(LoadConfig).RootFS[layerIdx]))
                          \in DOMAIN ls THEN {} ELSE {ioError}) :
             IF o.err # NoErr
             THEN /\ LoadFails(o.err, o.store, o.handles)
                  /\ UNCHANGED <<rootFS, layerIdx>>
             ELSE /\ ls' = o.store
                  /\ held' = o.handles
                  /\ rootFS' = Append(rootFS, NewFromJSON(LoadConfig).RootFS[layerIdx])
                  /\ layerIdx' = layerIdx + 1
                  /\ UNCHANGED <<pc, err>>
    /\ UNCHANGED <<lrefs, nNames, refs, imgDescr, tags, collected, searched, failed, is, rs>>
    /\ UNCHANGED <<tempDir, savedImages, diffIDsCache, todo, cur, refIdx, manifest, out, putBlobs>>
    /\ UNCHANGED <<tmpDir, manifests, mtodo, manRef, imageIDsStr, loadOut, events>>
    /\ UNCHANGED pipe
    /\ UNCHANGED cli

\* The progress line of an image written as soon as the image is created.
LoadImageReporting ==
    /\ pc = "loadLayers"
    /\ layerIdx > Len(NewFromJSON(LoadConfig).RootFS)
    /\ LET created == ISCreate(is, ls, LoadConfig)
       IN \E e \in {created.err, Err("IOError", "Create")} :
             IF e # NoErr
             THEN /\ LoadFails(e, ls, held)
                  /\ UNCHANGED <<is, manRef, imageIDsStr, events, loadOut>>
             ELSE /\ is' = created.is
                  /\ ls' = created.ls
                  /\ imageIDsStr' = Append(imageIDsStr, [line |-> "Loaded image ID", id |-> created.id])
                  /\ events' = Append(events, [id |-> created.id, action |-> "load"])
                  /\ loadOut' = Append(loadOut, [line |-> "Loaded image ID", id |-> created.id])
                  /\ manRef' = ""
                  /\ pc' = "manifests"
                  /\ UNCHANGED <<err, held>>
    /\ UNCHANGED <<lrefs, nNames, refs, imgDescr, tags, collected, searched, failed, rs>>
    /\ UNCHANGED <<tempDir, savedImages, diffIDsCache, todo, cur, refIdx, manifest, layerIdx, out, putBlobs>>
    /\ UNCHANGED <<tmpDir, manifests, mtodo, rootFS>>
    /\ UNCHANGED pipe
    /\ UNCHANGED cli

\* loadOCI, lines 100-109: the image is created and its progress line kept.
LoadImage ==
    /\ pc = "loadLayers"
    /\ layerIdx > Len(NewFromJSON(LoadConfig).RootFS)
    /\ LET created == ISCreate(is, ls, LoadConfig)
       IN \E e \in {created.err, Err("IOError", "Create")} :
             IF e # NoErr
             THEN /\ LoadFails(e, ls, held)
                  /\ UNCHANGED <<is, manRef, imageIDsStr, events>>
             ELSE /\ is' = created.is
                  /\ ls' = created.ls
                  /\ imageIDsStr' = Append(imageIDsStr, [line |-> "Loaded image ID", id |-> created.id])
                  /\ events' = Append(events, [id |-> created.id, action |-> "load"])
                  /\ manRef' = ""
                  /\ pc' = "manifests"
                  /\ UNCHANGED <<err, held>>
    /\ UNCHANGED <<lrefs, nNames, refs, imgDescr, tags, collected, searched, failed, rs>>
    /\ UNCHANGED <<tempDir, savedImages, diffIDsCache, todo, cur, refIdx, manifest, layerIdx, out, putBlobs>>
    /\ UNCHANGED <<tmpDir, manifests, mtodo, rootFS, loadOut>>
    /\ UNCHANGED pipe
    /\ UNCHANGED cli

\* loadOCI, lines 112-115: the progress lines are written and nil returned.
LoadReturn ==
    /\ pc = "manifests"
    /\ mtodo = {}
    /\ loadOut' = loadOut \o imageIDsStr
    /\ ls' = ReleaseAll(ls, held)
    /\ held' = <<>>
    /\ pc' = "loaded"
    /\ UNCHANGED <<lrefs, err, nNames, refs, imgDescr, tags, collected, searched, failed, is, rs>>
    /\ UNCHANGED <<tempDir, savedImages, diffIDsCache, todo, cur, refIdx, manifest, layerIdx, out, putBlobs>>
    /\ UNCHANGED <<tmpDir, manifests, mtodo, manRef, rootFS, imageIDsStr, events>>
    /\ UNCHANGED pipe
    /\ UNCHANGED cli

\* ------------------------------------------------------- docker load

\* loadOptions: the flags of the command.
LoadOptions(input, quiet, name, kvs, direct) ==
    [input |-> input, quiet |-> quiet, name |-> name, refs |-> kvs, direct |-> direct]

\* The --ref arguments of the model, each spelled in characters.
RefArgs == {<<>>, << <<"a", "=", "b">> >>, << <<"a">>, <<"c", "=", "d", "=", "e">> >>}

\* strings.SplitN(s, "=", 2)
SplitKV(s) ==
    IF \E i \in 1..Len(s) : s[i] = "="
    THEN LET eq == CHOOSE i \in 1..Len(s) : s[i] = "=" /\ \A j \in 1..(i - 1) : s[j] # "="
         IN <<SubSeq(s, 1, eq - 1), SubSeq(s, eq + 1, Len(s))>>
    ELSE <<s>>

\* runconfigopts.ConvertKVStringsToMap: key -> value, "" for a key alone; a
\* later argument with the key of an earlier one replaces it.
ConvertKVStringsToMap(values) ==
    LET Key(i) == SplitKV(values[i])[1]
        Value(i) == IF Len(SplitKV(values[i])) = 1 THEN <<>> ELSE SplitKV(values[i])[2]
    IN [k \in {Key(i) : i \in 1..Len(values)} |->
           Value(CHOOSE i \in 1..Len(values) :
                     Key(i) = k /\ \A j \in (i + 1)..Len(values) : Key(j) # k)]

\* The command and its surroundings.  opts: the flags; terminal:
\* dockerCli.Out().IsTerminal(); at: where runLoad is; input: the reader of
\* line 51 ("nil", "stdin", or the name of the file); opened, closed: the
\* files opened and closed; read: the readers a request body was read from;
\* requests: the requests sent to the daemon; shown: how the response was
\* written to the output; err: the error returned.
Cli(opts, terminal) ==
    [opts |-> opts, terminal |-> terminal, at |-> "options", input |-> "nil",
     opened |-> <<>>, closed |-> <<>>, read |-> {}, requests |-> <<>>, shown |-> "",
     err |-> NoErr]

\* No command is run.
NoCli == [Cli(LoadOptions("", FALSE, "", <<>>, ""), FALSE) EXCEPT !.at = "none"]

\* The commands of the model.
Clis ==
    {Cli(LoadOptions(input, quiet, name, kvs, direct), terminal) :
        input \in {"", "busybox.tar"}, quiet \in BOOLEAN, name \in {"", "img0"},
        kvs \in RefArgs, direct \in {"", "/layout"}, terminal \in BOOLEAN}

ConflictingOptions == "-input and -direct cannot be used at the same time"

\* runLoad returns: the deferred file.Close runs.
CliReturns(c, e) ==
    [c EXCEPT !.at = "returned", !.err = e,
              !.closed = IF c.input \in {"nil", "stdin"} THEN @ ELSE Append(@, c.input)]

\* runLoad going on whatever the two flags are.
RunLoadOptionsUnchecked ==
    /\ cli.at = "options"
    /\ cli' = [cli EXCEPT !.at = "stdin"]
    /\ UNCHANGED <<resolveVars, storeVars, saveVars, loadVars, pipeVars>>

\* runLoad, lines 51-54: the two flags that exclude each other.
RunLoadOptions ==
    /\ cli.at = "options"
    /\ cli' = IF cli.opts.direct # "" /\ cli.opts.input # ""
              THEN CliReturns(cli, Err("Error", ConflictingOptions))
              ELSE [cli EXCEPT !.at = "stdin"]
    /\ UNCHANGED <<resolveVars, storeVars, saveVars, loadVars, pipeVars>>

\* runLoad, lines 56-58: the standard input, unless the daemon reads a
\* directory.
RunLoadStdin ==
    /\ cli.at = "stdin"
    /\ cli' = [cli EXCEPT !.at = "open",
                          !.input = IF cli.opts.direct = "" THEN "stdin" ELSE @]
    /\ UNCHANGED <<resolveVars, storeVars, saveVars, loadVars, pipeVars>>

\* runLoad, lines 59-66: the input file is opened.
RunLoadOpen ==
    /\ cli.at = "open"
    /\ IF cli.opts.input = ""
       THEN cli' = [cli EXCEPT !.at = "terminal"]
       ELSE \E ok \in BOOLEAN :
               cli' = IF ok
                      THEN [cli EXCEPT !.at = "terminal", !.input = cli.opts.input,
                                       !.opened = Append(@, cli.opts.input)]
                      ELSE CliReturns(cli, Err("IOError", "open"))
    /\ UNCHANGED <<resolveVars, storeVars, saveVars, loadVars, pipeVars>>

\* runLoad, lines 67-69: no progress on an output that is not a terminal.
RunLoadQuiet ==
    /\ cli.at = "terminal"
    /\ cli' = [cli EXCEPT !.at = "request",
                          !.opts.quiet = IF ~cli.terminal THEN TRUE ELSE @]
    /\ UNCHANGED <<resolveVars, storeVars, saveVars, loadVars, pipeVars>>

\* runLoad, lines 70-79: the request to the daemon, its body read from input.
RunLoadRequest ==
    /\ cli.at = "request"
    /\ LET imageLoadOpts == [Quiet |-> cli.opts.quiet, Name |-> cli.opts.name,
                             Refs |-> ConvertKVStringsToMap(cli.opts.refs),
                             Direct |-> cli.opts.direct]
           sent == [cli EXCEPT !.requests = Append(@, [body |-> cli.input, options |-> imageLoadOpts]),
                               !.read = IF cli.input = "nil" THEN @ ELSE @ \cup {cli.input}]
       IN \E e \in {NoErr, Err("IOError", "ImageLoad")} :
             cli' = IF e # NoErr THEN CliReturns(sent, e)
                    ELSE [sent EXCEPT !.at = "response"]
    /\ UNCHANGED <<resolveVars, storeVars, saveVars, loadVars, pipeVars>>

\* runLoad, lines 80-87: the response is written to the output, as JSON
\* messages or as it is.
RunLoadDisplay ==
    /\ cli.at = "response"
    /\ \E json \in BOOLEAN :
          \E e \in {NoErr, Err("IOError", "write")} :
             cli' = CliReturns([cli EXCEPT !.shown = IF json THEN "DisplayJSONMessagesToStream"
                                                      ELSE "io.Copy"], e)
    /\ UNCHANGED <<resolveVars, storeVars, saveVars, loadVars, pipeVars>>

\* -------------------------------------------------------- specifications

vars == <<resolveVars, storeVars, saveVars, loadVars, pipeVars, cliVars>>

InitStores ==
    /\ is = ImageStore
    /\ rs \in RefStores
    /\ ls = LayerStore

InitRequest ==
    /\ pc = "getRefs"
    /\ err = NoErr
    /\ nNames = 0
    /\ refs = EmptyMap
    /\ imgDescr = EmptyDescr
    /\ tags = {}
    /\ collected = {}
    /\ searched = {}
    /\ failed = {}
    /\ tempDir = NoDir
    /\ savedImages = EmptySaved
    /\ diffIDsCache = EmptyCache
    /\ todo = {}
    /\ cur = NoDigest
    /\ refIdx = 1
    /\ manifest = NoManifest
    /\ layerIdx = 1
    /\ held = <<>>
    /\ out = <<>>
    /\ putBlobs = NoPuts
    /\ pipe = NoPipe
    /\ tmpDir = NoFiles
    /\ manifests = NoManifests
    /\ mtodo = {}
    /\ manRef = ""
    /\ rootFS = <<>>
    /\ imageIDsStr = <<>>
    /\ loadOut = <<>>
    /\ events = <<>>

\* Name resolution alone, over every --ref map of the model.
InitResolve == lrefs \in RefOverrides /\ InitStores /\ InitRequest /\ cli = NoCli

NextResolve == GetRefs \/ ParseName \/ ParseReturn

SpecResolve == InitResolve /\ [][NextResolve]_vars

Init == lrefs \in RefOverrides /\ InitStores /\ InitRequest /\ cli = NoCli

\* A save request, from its names to the archive.
Next ==
    \/ GetRefs \/ ParseName \/ ParseReturn
    \/ Save \/ SaveRange \/ SaveImageRef \/ SaveImageConfig \/ SaveLayer \/ SaveManifest \/ SaveTar
    \/ GorCopy \/ GorFlush \/ GorClose \/ SavePutBlob

Spec == Init /\ [][Next]_vars

\* A save request without --ref whose archive, as written or with one blob
\* changed, is loaded.
InitLoad == lrefs = EmptyMap /\ InitStores /\ InitRequest /\ cli = NoCli

NextLoad ==
    \/ Next
    \/ Load \/ Tamper \/ LoadRefs \/ LoadManifest \/ LoadLayer \/ LoadImage \/ LoadReturn

SpecLoad == InitLoad /\ [][NextLoad]_vars

\* A save request without --ref in which the goroutine of a layer, once
\* started, is scheduled whenever it can take a step.
SpecPipe ==
    InitLoad /\ [][Next]_vars /\ WF_vars(GorCopy) /\ WF_vars(GorFlush) /\ WF_vars(GorClose)

\* A docker load command, from its flags to its return.
InitCLI == lrefs = EmptyMap /\ InitStores /\ InitRequest /\ cli \in Clis

NextCLI ==
    RunLoadOptions \/ RunLoadStdin \/ RunLoadOpen \/ RunLoadQuiet \/ RunLoadRequest \/ RunLoadDisplay

SpecCLI == InitCLI /\ [][NextCLI]_vars

\* ------------------------------------------------- claims on resolution

\* The references of all descriptors, each with its image.
DescrRefs(descr) ==
    UNION {{[id |-> id, ref |-> descr[id][i]] : i \in 1..Len(descr[id])} : id \in DOMAIN descr}

\* C1: in the descriptors parseOCINames builds and returns, no two references
\* (of one image or of two) have the same tag component.
C1_UniqueTags ==
    \A id1, id2 \in DOMAIN imgDescr :
        \A i \in 1..Len(imgDescr[id1]), j \in 1..Len(imgDescr[id2]) :
            (id1 # id2 \/ i # j) => imgDescr[id1][i].tag # imgDescr[id2][j].tag

C1_Witness ==
    /\ pc = "parsed"
    /\ \E id1, id2 \in DOMAIN imgDescr :
          /\ id1 # id2
          /\ Len(imgDescr[id1]) >= 2
          /\ Len(imgDescr[id2]) >= 1
    /\ \E c \in collected : c.src # c.ref

\* Two collected references that are distinct (two images, or one image under
\* two repository names) and have the same tag after the overrides.
Conflict(c1, c2) ==
    /\ c1.ref.tag = c2.ref.tag
    /\ c1.id # c2.id \/ c1.ref.name # c2.ref.name

\* C2: once addAssoc has collected two distinct references with the same tag
\* (after overrides), resolution has failed with the duplicate-reference error
\* that names that tag.
C2_DuplicateReference ==
    \A c1, c2 \in collected :
        Conflict(c1, c2) =>
            pc = "failed" /\ err = Err("DuplicateReference", c1.ref.tag)

\* a conflict that is left after an override renamed one of three references
C2_Witness ==
    /\ pc = "failed"
    /\ \E c1, c2, c3 \in collected :
          /\ Conflict(c1, c2)
          /\ c3.src # c3.ref
          /\ c3.src.tag = c1.ref.tag
          /\ c1.src = c1.ref /\ c2.src = c2.ref

\* An entry of the --ref map whose value the OCI reference pattern rejects.
BadValue(k) == k \in DOMAIN lrefs /\ ~MatchOCIRef(lrefs[k])
InvalidReference(k) == Err("InvalidReference", k \o "=" \o lrefs[k])

\* C3 as stated: every entry with a bad value, whatever the form of its key,
\* makes the save fail with the invalid-reference error naming that entry.
C3_AsStated ==
    \A k \in DOMAIN lrefs :
        (BadValue(k) /\ pc # "getRefs") => (pc = "failed" /\ err = InvalidReference(k))

\* The keys getRefs validates: those that parse and carry no digest.
Validated(k) == ParseNamed(k).err = NoErr /\ ~IsCanonical(ParseNamed(k).ref)

\* C3 amended: an entry keyed by name or name:tag with a bad value makes
\* getRefs fail before any name is resolved; the error names one such entry,
\* or is the parse error of a key of the map that does not parse.
C3_InvalidReference ==
    (pc # "getRefs" /\ \E k \in DOMAIN lrefs : BadValue(k) /\ Validated(k)) =>
        /\ pc = "failed"
        /\ nNames = 0
        /\ \/ \E k \in DOMAIN lrefs : BadValue(k) /\ Validated(k) /\ err = InvalidReference(k)
           \/ \E k \in DOMAIN lrefs : err = ParseNamed(k).err /\ err # NoErr

C3_Witness ==
    /\ pc = "failed"
    /\ Cardinality(DOMAIN lrefs) = 2
    /\ \E k \in DOMAIN lrefs : BadValue(k) /\ Validated(k) /\ err = InvalidReference(k)
    /\ \E k \in DOMAIN lrefs : BadValue(k) /\ ~Validated(k)

RefsOfName(name) == {r \in DOMAIN rs : r.name = name}

\* The reference addAssoc files a reference of the store under.
OverrideOf(r) ==
    IF String(r) \in DOMAIN refs THEN Ref(r.name, refs[String(r)], "") ELSE r

Filed(r) == [id |-> RSGet(rs, r).id, ref |-> OverrideOf(r)]

\* C5: taking a name:tag adds that one reference (under its override) to its
\* image and nothing else; taking a bare name adds one reference for every tag
\* the reference store holds under the name and nothing else; the image store
\* is searched only when the reference store holds nothing under the name, and
\* the image found is included with no reference.
C5_Contribution ==
    pc = "names" =>
        \A name \in Names :
            LET parsed == ParseIDOrReference(name)
                st == ParseOCIName(ParseState, name)
                added == DescrRefs(st.imgDescr) \ DescrRefs(imgDescr)
                ofName == {r \in RefsOfName(parsed.ref.name) : IsNamedTagged(r)}
            IN (parsed.err = NoErr /\ parsed.id = NoDigest /\ st.err = NoErr
                    /\ parsed.ref.name # CanonicalAlgo /\ ~IsCanonical(parsed.ref)) =>
                  IF IsNamedTagged(parsed.ref)
                  THEN /\ added \subseteq {Filed(parsed.ref)}
                       /\ Filed(parsed.ref) \in DescrRefs(st.imgDescr)
                       /\ st.searched = searched
                  ELSE /\ added \subseteq {Filed(r) : r \in ofName}
                       /\ \A r \in ofName : Filed(r) \in DescrRefs(st.imgDescr)
                       /\ st.searched # searched =>
                             /\ ofName = {}
                             /\ added = {}
                             /\ SearchIndex[name] \in DOMAIN st.imgDescr
                       /\ RefsOfName(parsed.ref.name) = {} => name \in st.searched

\* a bare name has added its two tags, another was found by the search
C5_Witness ==
    /\ pc = "names"
    /\ searched # {}
    /\ \E id \in DOMAIN imgDescr : imgDescr[id] = <<>>
    /\ \E id \in DOMAIN imgDescr :
          /\ Len(imgDescr[id]) = 2
          /\ imgDescr[id][1].name = imgDescr[id][2].name
    /\ \E id \in DOMAIN imgDescr : Len(imgDescr[id]) = 1

\* ------------------------------------------------- claims on the archive

\* The directory the archive of a finished save extracts to.
ArchiveFiles == Untar(out)

\* The descriptor a refs/ file of image id holds.
ManifestDescriptor(id) ==
    MarshalJSON(Descriptor(MediaTypeImageManifest, Digest(savedImages[id]), Size(savedImages[id])))

\* refs/<name> of the archive points at the manifest of image id.
PointsAt(name, id) ==
    /\ RefPath(name) \in DOMAIN ArchiveFiles
    /\ id \in DOMAIN savedImages
    /\ ArchiveFiles[RefPath(name)] = ManifestDescriptor(id)

\* The name:tag an override key stands for.
NormalKey(k) ==
    LET r == ParseNamed(k).ref
    IN String(IF IsNamedTagged(r) THEN r ELSE WithTag(r, DefaultTag).ref)

\* The override keys that name the collected reference c in full.
OverrideKeys(c) ==
    {k \in DOMAIN lrefs : Validated(k) /\ NormalKey(k) = String(c.src)}

\* C4 as stated: after a successful save, the image of every collected
\* reference an override key names is under refs/<alt> for the value alt of
\* that key and not under refs/<tag>, and a reference no key names is under
\* its own tag.
C4_AsStated ==
    pc = "saved" =>
        \A c \in collected :
            /\ \A k \in OverrideKeys(c) :
                  PointsAt(lrefs[k], c.id) /\ ~PointsAt(c.src.tag, c.id)
            /\ OverrideKeys(c) = {} => PointsAt(c.src.tag, c.id)

\* C4: after a successful save, a collected reference named in full by an
\* override key is filed under the value of such a key, its image is under
\* refs/<alt> for that value, and under refs/<tag> only when a collected
\* reference of the image carries that tag after the overrides; a reference
\* no key names keeps its tag and its image is under refs/<tag>.
C4_Override ==
    pc = "saved" =>
        \A c \in collected :
            /\ OverrideKeys(c) # {} =>
                  /\ \E k \in OverrideKeys(c) :
                        c.ref = Ref(c.src.name, lrefs[k], "") /\ PointsAt(lrefs[k], c.id)
                  /\ PointsAt(c.src.tag, c.id) =>
                        \E c2 \in collected : c2.id = c.id /\ c2.ref.tag = c.src.tag
            /\ OverrideKeys(c) = {} => c.ref = c.src /\ PointsAt(c.src.tag, c.id)

\* a bare-name key renamed busybox:latest while a reference of another name
\* kept the tag latest
C4_Witness ==
    /\ pc = "saved"
    /\ \E c1, c2 \in collected :
          /\ "busybox" \in OverrideKeys(c1)
          /\ c1.ref.tag = lrefs["busybox"]
          /\ c1.src.tag = DefaultTag
          /\ OverrideKeys(c2) = {}
          /\ c2.src.tag = DefaultTag
          /\ PointsAt(DefaultTag, c2.id)
          /\ PointsAt(lrefs["busybox"], c1.id)

\* C6: once a lookup in the image store or the reference store has failed for
\* a name, the request has failed with the error of that lookup, the
\* descriptor map is empty, and nothing was staged, saved or written.
C6_NotFound ==
    failed # {} =>
        /\ pc = "failed"
        /\ \E name \in failed : err.kind = "NotFound"
                                /\ err \in {ISGet(is, ParseIDOrReference(name).id).err,
                                            ISSearch(is, name).err,
                                            RSGet(rs, ParseIDOrReference(name).ref).err}
        /\ imgDescr = EmptyDescr
        /\ tempDir = NoDir
        /\ savedImages = EmptySaved
        /\ putBlobs = NoPuts
        /\ out = <<>>

\* the third name failed after two names had resolved to two images
C6_Witness ==
    /\ pc = "failed"
    /\ failed # {}
    /\ nNames = 3
    /\ Cardinality({c.id : c \in collected}) = 2

\* The images of the request that have no reference.
Unreferenced == {id \in DOMAIN imgDescr : Len(imgDescr[id]) = 0}

C8_StagedOnce ==
    /\ \A h \in DOMAIN putBlobs : putBlobs[h] = 1
    /\ tempDir.exists =>
          \A id \in DOMAIN savedImages :
              /\ BlobPath(Digest(savedImages[id])) \in DOMAIN tempDir.files
              /\ \A i \in 1..Len(imgDescr[id]) :
                    RefPath(imgDescr[id][i].tag) \in DOMAIN tempDir.files =>
                        tempDir.files[RefPath(imgDescr[id][i].tag)] = ManifestDescriptor(id)

\* both references of an image are staged
C8_Witness ==
    /\ tempDir.exists
    /\ \E id \in DOMAIN savedImages :
          /\ Len(imgDescr[id]) = 2
          /\ \A i \in 1..2 : RefPath(imgDescr[id][i].tag) \in DOMAIN tempDir.files

\* The digests the manifest of image id lists.
Listed(id) ==
    LET m == savedImages[id].json
    IN {m.Config.Digest} \cup {m.Layers[i].Digest : i \in 1..Len(m.Layers)}

\* C9: after a successful save every digest a manifest of the session lists is
\* the digest of exactly one entry of the archive, at the path of the blob.
C9_BlobsOnce ==
    pc = "saved" =>
        \A id \in DOMAIN savedImages :
            \A d \in Listed(id) :
                /\ Cardinality({i \in 1..Len(out) : out[i].path = BlobPath(d)}) = 1
                /\ \A i \in 1..Len(out) : out[i].path = BlobPath(d) => Digest(out[i].content) = d

\* two manifests list the blob of the layer the two images share
C9_Witness ==
    /\ pc = "saved"
    /\ \E id1, id2 \in DOMAIN savedImages :
          /\ id1 # id2
          /\ savedImages[id1].json.Layers[1] = savedImages[id2].json.Layers[1]

\* C10: when the load of a saved archive has returned, every image the save
\* staged is in the image store under its ID with the configuration it was
\* saved from, and the load has reported that ID.
C10_RoundTrip ==
    (pc = "loaded" /\ tmpDir = Untar(out)) =>
        \A id \in DOMAIN savedImages :
            /\ Len(ImageStore[id].rootfs) >= 1
            /\ id \in DOMAIN is
            /\ is[id] = ImageStore[id]
            /\ \E i \in 1..Len(loadOut) : loadOut[i].id = id

\* a daemon with empty stores has loaded the two images of an archive
C10_Witness ==
    /\ pc = "loaded"
    /\ tmpDir = Untar(out)
    /\ DOMAIN is = {IDA, IDB}
    /\ DOMAIN savedImages = {IDA, IDB}
    /\ Len(loadOut) >= 2

\* ---------------------------------------------------- claims on the load

\* The image ID is.Create gives the configuration the manifest of refs/<name>
\* lists.
CreatedFrom(name) == IDFromConfig(ReadConfig(tmpDir, manifests[name]).config)

\* C11 as stated: after a successful load the reference store binds, for every
\* file refs/<name> of the archive, a reference with the tag <name> to the
\* image created from the manifest the file points at.
C11_AsStated ==
    pc = "loaded" =>
        \A name \in RefFiles(tmpDir) :
            \E r \in DOMAIN rs : r.tag = name /\ rs[r] = CreatedFrom(name)

\* The progress lines and the image events of a load that name image id.
LinesOf(id) == {i \in 1..Len(loadOut) : loadOut[i].id = id}
EventsOf(id) == {i \in 1..Len(events) : events[i].id = id}

\* C12 as stated: after a successful load every image of the archive was
\* created once and has one progress line, however many refs/ files point at
\* its manifest.
C12_AsStated ==
    pc = "loaded" =>
        \A name \in DOMAIN manifests :
            /\ Cardinality(LinesOf(CreatedFrom(name))) = 1
            /\ Cardinality(EventsOf(CreatedFrom(name))) = 1

\* The bytes of blob p do not hash to the digest the archive names it by.
Mismatch(p) == Digest(tmpDir[p]).hex # p.name

\* The blobs the archive declares for refs/<name>: the manifest, its
\* configuration and its layers.
BlobsOf(name) ==
    {BlobPath(tmpDir[RefPath(name)].json.Digest), BlobPath(manifests[name].Config.Digest)}
        \cup {BlobPath(manifests[name].Layers[i].Digest) : i \in 1..Len(manifests[name].Layers)}

\* The refs/ files the loop of loadOCI has created an image for.
Created == DOMAIN manifests \ (mtodo \cup {manRef})

\* C13 as stated: a load of an archive in which a blob of a manifest does not
\* hash to its declared digest does not return nil, and no image is created
\* from that manifest.
C13_AsStated ==
    \A name \in DOMAIN manifests :
        (\E p \in BlobsOf(name) \cap DOMAIN tmpDir : Mismatch(p)) =>
            pc # "loaded" /\ name \notin Created

\* ------------------------------------------- claims on the layer store

\* The references on the layer of chain c that are not handles: the images
\* whose top layer it is and the layers stacked on it.
ImageRefs(c) == Cardinality({id \in DOMAIN is : ChainID(NewFromJSON(is[id]).RootFS) = c})
Children(c) == Cardinality({d \in DOMAIN ls : ls[d].parent = c})

\* The handles on chain c whose release is still deferred.
Handles(c) == Cardinality({i \in 1..Len(held) : held[i] = c})

\* saveImage or loadOCI is running.
InSession == pc \in {"layers", "pipe", "manifests", "loadLayers"}

\* C14: the reference count of every layer is the number of images, child
\* layers and handles not yet released that refer to it, no layer an image
\* or a layer rests on is gone, and once saveImage or loadOCI has returned,
\* with nil or with an error, no handle is held: every handle acquired was
\* released once, neither kept nor released twice.
C14_HandlesReleased ==
    /\ \A c \in DOMAIN ls : ls[c].refCount = ImageRefs(c) + Children(c) + Handles(c)
    /\ \A c \in DOMAIN ls : ls[c].parent # NoDigest => ls[c].parent \in DOMAIN ls
    /\ \A id \in DOMAIN is :
          NewFromJSON(is[id]).RootFS # <<>> => ChainID(NewFromJSON(is[id]).RootFS) \in DOMAIN ls
    /\ ~InSession => held = <<>>

\* a save acquired and released the handles of two layers; the load of its
\* archive failed holding the handle of a layer
C14_Witness ==
    /\ pc = "loadFailed"
    /\ Len(rootFS) >= 1
    /\ held = <<>>
    /\ \E id \in DOMAIN savedImages : Len(savedImages[id].json.Layers) = 2

\* C15: no step of a save request, to its success or to its failure at any
\* point, changes the image store or the reference store or adds or removes
\* a layer of the layer store, and when the request has ended the layer store
\* is what it was before the request.
C15_SaveFrame ==
    [][/\ is' = is
       /\ rs' = rs
       /\ DOMAIN ls' = DOMAIN ls
       /\ pc' \in {"failed", "saved", "saveFailed"} => ls' = LayerStore]_vars

\* a save failed in PutBlob after it had saved another image
C15_Witness ==
    /\ pc = "saveFailed"
    /\ err = Err("IOError", "PutBlob")
    /\ savedImages # EmptySaved
    /\ is = ImageStore
    /\ ls = LayerStore

\* ------------------------------------------------ claims on the layer pipe

\* The digests of the compressed streams of layers read short of their end.
TruncatedDigests ==
    {Digest(Gzip(Prefix(ls[c].tar, k))) : c \in DOMAIN ls, k \in 0..(NChunks - 1)}

\* The layer digests the manifests of the session list.
ListedLayers ==
    {manifest.Layers[i].Digest : i \in 1..Len(manifest.Layers)}
        \cup UNION {{savedImages[id].json.Layers[i].Digest :
                        i \in 1..Len(savedImages[id].json.Layers)} : id \in DOMAIN savedImages}

\* C16 as stated: once PutBlob has returned for a layer whose tar stream
\* failed part-way, the save has failed with an I/O error; no manifest lists
\* and no entry of the DiffID cache holds the digest of a truncated stream.
C16_AsStated ==
    /\ (pipe.cut /\ pc # "pipe") => (pc = "saveFailed" /\ err.kind = "IOError")
    /\ ListedLayers \cap TruncatedDigests = {}
    /\ \A d \in DOMAIN diffIDsCache : diffIDsCache[d].digest \notin TruncatedDigests

\* C17 as stated: when PutBlob has returned an error for a layer whose
\* goroutine is still copying, flushing or about to close, the goroutine
\* comes to its end.
C17_AsStated ==
    (pc = "saveFailed" /\ pipe.phase \in {"copy", "flush", "close"}) ~> (pipe.phase = "done")

\* C18 as stated: once saveImage has left the streaming of a layer for which
\* a pipe was made, by success or by any error, the write end and the read
\* end of that pipe have each been closed once.
C18_AsStated ==
    (pipe.phase # "none" /\ pc # "pipe") => (pipe.wClosed = 1 /\ pipe.rClosed = 1)

\* C19 as stated: a save holds at most one layer handle at any time, the
\* handle of a layer being released before the next layer is acquired.
C19_AsStated ==
    pc \in {"layers", "pipe"} => Len(held) <= 1

\* ------------------------------------------- claims on the order of load

\* The DiffIDs of the configuration of the manifest the range is at.
CurDiffIDs == NewFromJSON(LoadConfig).RootFS

\* C20: in a load, (1) the range enters the layers of a manifest only when the
\* manifest lists as many layers as its configuration has DiffIDs; (2) rootFS
\* grows by the DiffID of the next index only, and only when the layer just
\* obtained has that DiffID; (3) an image is created only when rootFS holds
\* every DiffID of the configuration, each layer of the chain being in the
\* layer store with its DiffID; (4) a load that fails on the layer count or on
\* a DiffID creates no image for that manifest.
C20_CreateAfterChecks ==
    [][/\ (pc = "manifests" /\ pc' = "loadLayers") =>
             /\ Len(manifests[manRef'].Layers) =
                   Len(NewFromJSON(ReadConfig(tmpDir, manifests[manRef']).config).RootFS)
             /\ rootFS' = <<>>
       /\ (pc = "loadLayers" /\ rootFS' # rootFS) =>
             /\ Len(rootFS) < Len(CurDiffIDs)
             /\ rootFS' = Append(rootFS, CurDiffIDs[Len(rootFS) + 1])
             /\ held' # held
             /\ ls'[held'[Len(held')]].diffID = CurDiffIDs[Len(rootFS) + 1]
       /\ events' # events =>
             /\ pc = "loadLayers"
             /\ Len(manifests[manRef].Layers) = Len(CurDiffIDs)
             /\ rootFS = CurDiffIDs
             /\ \A i \in 1..Len(CurDiffIDs) :
                   /\ ChainID(SubSeq(CurDiffIDs, 1, i)) \in DOMAIN ls
                   /\ ls[ChainID(SubSeq(CurDiffIDs, 1, i))].diffID = CurDiffIDs[i]
       /\ (pc' = "loadFailed" /\ err'.kind \in {"InvalidManifest", "InvalidDiffID"}) =>
             /\ is' = is
             /\ events' = events
             /\ imageIDsStr' = imageIDsStr]_vars

\* a daemon with empty stores has created the image of two layers after it
\* loaded and checked both
C20_Witness ==
    /\ pc = "manifests"
    /\ Len(events) = 1
    /\ Len(rootFS) = 2
    /\ Len(held) = 2
    /\ DOMAIN is = {IDB}

\* ------------------------------------------- claims on the layer chains

\* The chain loadOCI looks up for the layer the loop is at.
PartialChain == ChainID(Append(rootFS, CurDiffIDs[layerIdx]))

\* The blob the manifest lists for the layer the loop is at.
LayerBlobPath == BlobPath(manifests[manRef].Layers[layerIdx].Digest)

\* C21: in the loop over the DiffIDs of a load, rootFS holds DiffIDs[0..i-1]
\* when layer i is looked up, so the chain looked up is that of DiffIDs[0..i];
\* (1) when the layer store has that chain the iteration takes one more
\* reference on the stored layer, adds no layer, and its result is the same
\* whatever files the archive holds; (2) otherwise an iteration that succeeds
\* has registered the content of the blob as that chain on top of the chain of
\* DiffIDs[0..i-1]; (3) after the last layer the chain of rootFS is the chain
\* of the full RootFS of the configuration.
C21_ChainLookup ==
    [][pc = "loadLayers" =>
          /\ layerIdx = Len(rootFS) + 1
          /\ rootFS = SubSeq(CurDiffIDs, 1, Len(rootFS))
          /\ layerIdx > Len(CurDiffIDs) => ChainID(rootFS) = ChainID(CurDiffIDs)
          /\ (layerIdx <= Len(CurDiffIDs) /\ PartialChain \in DOMAIN ls) =>
                /\ ObtainLayer(ls, held, NoFiles, manifests[manRef], CurDiffIDs, rootFS, layerIdx)
                      = ObtainLayer(ls, held, tmpDir, manifests[manRef], CurDiffIDs, rootFS, layerIdx)
                /\ pc' = "loadLayers"
                /\ ls' = [ls EXCEPT ![PartialChain].refCount = @ + 1]
                /\ held' = Append(held, PartialChain)
                /\ rootFS' = Append(rootFS, CurDiffIDs[layerIdx])
          /\ (layerIdx <= Len(CurDiffIDs) /\ PartialChain \notin DOMAIN ls /\ pc' = "loadLayers") =>
                /\ DOMAIN ls' = DOMAIN ls \cup {PartialChain}
                /\ ls'[PartialChain].parent = ChainID(rootFS)
                /\ ls'[PartialChain].tar = tmpDir[LayerBlobPath].gzip
                /\ ls'[PartialChain].diffID = CurDiffIDs[layerIdx]
                /\ held' = Append(held, PartialChain)
                /\ rootFS' = Append(rootFS, CurDiffIDs[layerIdx])]_vars

\* in a daemon with empty stores the first layer of the second image was
\* reused and its second layer registered on top of it
C21_Witness ==
    /\ pc = "loadLayers"
    /\ layerIdx = 3
    /\ rootFS = <<D1, D2>>
    /\ DOMAIN is = {IDA}
    /\ Len(held) = 3
    /\ ls[ChainID(<<D1, D2>>)].parent = ChainID(<<D1>>)

\* ------------------------------------------- claims on the saved manifests

\* The streams PutBlob can have read for the layer of a DiffID: the
\* compressed tar of that layer, whole or up to a read error.
LayerBlobs(diffID) ==
    {Gzip(Prefix(tar, k)) : tar \in {t \in LayerTars : DiffID(t) = diffID}, k \in 0..NChunks}

\* Descriptor desc is that of a blob of the layer of the DiffID.
DescribesLayer(desc, diffID) ==
    \E b \in LayerBlobs(diffID) :
        desc = Descriptor(MediaTypeImageLayer, Digest(b), Size(b))

\* The first n layers of manifest m are those of the first n DiffIDs, in order.
LayersMatch(m, diffIDs, n) ==
    /\ Len(m.Layers) = n
    /\ \A i \in 1..n : DescribesLayer(m.Layers[i], diffIDs[i])
    /\ tempDir.exists =>
          \A i \in 1..n :
             /\ BlobPath(m.Layers[i].Digest) \in DOMAIN tempDir.files
             /\ tempDir.files[BlobPath(m.Layers[i].Digest)] \in LayerBlobs(diffIDs[i])

\* C22: the manifest of every image a save session has saved lists one layer
\* descriptor for every DiffID of the image, the i-th being that of a staged
\* blob of the layer of RootFS.DiffIDs[i] (its digest, its size, the layer
\* media type); the manifest under construction lists the layers of the
\* DiffIDs the loop has passed, in the same way.
C22_LayersPositional ==
    /\ \A id \in DOMAIN savedImages :
          LayersMatch(savedImages[id].json, is[id].rootfs, Len(is[id].rootfs))
    /\ pc \in {"layers", "pipe"} => LayersMatch(manifest, is[cur].rootfs, layerIdx - 1)

\* the image of one layer is saved; the manifest of the image of two layers
\* has its first layer from the cache and its second freshly compressed
C22_Witness ==
    /\ pc = "layers"
    /\ cur = IDB
    /\ IDA \in DOMAIN savedImages
    /\ layerIdx = 3
    /\ Len(manifest.Layers) = 2
    /\ {Digest(Gzip("tar1")).hex, Digest(Gzip("tar2")).hex} \subseteq DOMAIN putBlobs
    /\ putBlobs[Digest(Gzip("tar1")).hex] = 1
    /\ putBlobs[Digest(Gzip("tar2")).hex] = 1

\* The blobs of the layer of a DiffID that PutBlob was called with.
PutsOf(diffID) == {b \in LayerBlobs(diffID) : Digest(b).hex \in DOMAIN putBlobs}

\* The descriptor the session keeps in its cache for a DiffID.
CachedDescriptor(diffID) ==
    Descriptor(MediaTypeImageLayer, diffIDsCache[diffID].digest, diffIDsCache[diffID].size)

\* The first n layers of manifest m are the cached descriptors of the DiffIDs.
LayersCached(m, diffIDs, n) ==
    \A i \in 1..n :
        /\ diffIDs[i] \in DOMAIN diffIDsCache
        /\ m.Layers[i] = CachedDescriptor(diffIDs[i])

\* C23: in a save session (1) PutBlob has stored at most one blob for the
\* layer of a DiffID, once, and exactly one when the cache holds the DiffID;
\* a layer is streamed only when the cache does not hold its DiffID; (2) every
\* layer descriptor of a saved manifest or of the manifest under construction
\* is the cached digest and size of its DiffID, so two occurrences of a DiffID,
\* in one image or in two, have the same descriptor; (3) the archive of a
\* successful save holds exactly one blob for every cached DiffID.
C23_LayerOnce ==
    /\ \A tar \in LayerTars :
          /\ Cardinality(PutsOf(DiffID(tar))) =
                (IF DiffID(tar) \in DOMAIN diffIDsCache THEN 1 ELSE 0)
          /\ \A b \in PutsOf(DiffID(tar)) : putBlobs[Digest(b).hex] = 1
    /\ pc = "pipe" => ls[CurChain].diffID \notin DOMAIN diffIDsCache
    /\ \A id \in DOMAIN savedImages :
          LayersCached(savedImages[id].json, is[id].rootfs, Len(is[id].rootfs))
    /\ pc \in {"layers", "pipe"} => LayersCached(manifest, is[cur].rootfs, layerIdx - 1)
    /\ pc = "saved" =>
          \A d \in DOMAIN diffIDsCache :
              Cardinality({i \in 1..Len(out) : out[i].content \in LayerBlobs(d)}) = 1

\* a session saved the image of tar1 twice over and the image of tar1 and
\* tar2: three occurrences of one DiffID, one blob
C23_Witness ==
    /\ pc = "saved"
    /\ {IDB, IDC} \subseteq DOMAIN savedImages
    /\ savedImages[IDC].json.Layers[1] = savedImages[IDC].json.Layers[2]
    /\ savedImages[IDC].json.Layers[1] = savedImages[IDB].json.Layers[1]
    /\ Cardinality(PutsOf(D1)) = 1

\* --------------------------------------------- claims on the order of work

\* The image the manifest filed under a name of refs/ is that of.
ImageOf(name) == IDFromConfig(ReadConfig(tmpDir, manifests[name]).config)

\* C24 as stated: whenever the range of loadOCI over the manifests can go on
\* with either of two names, the two are of the same image (so the order of
\* the images created and of their progress lines is fixed by the archive and
\* the stores), and whenever the range of save over the resolved images can go
\* on with either of two images, the two are the same.
C24_AsStated ==
    /\ \A n1, n2 \in mtodo :
          (ENABLED (LoadManifest /\ manRef' = n1) /\ ENABLED (LoadManifest /\ manRef' = n2))
              => ImageOf(n1) = ImageOf(n2)
    /\ \A id1, id2 \in todo :
          (ENABLED (SaveRange /\ cur' = id1) /\ ENABLED (SaveRange /\ cur' = id2))
              => id1 = id2

\* ------------------------------------------------ claims on failed saves

\* Nothing of image id is in the staging directory or in the session's record.
NothingStaged(id) ==
    /\ id \notin DOMAIN savedImages
    /\ BlobPath(Digest(RawJSON(is[id]))) \notin DOMAIN tempDir.files
    /\ RefPath(id.hex) \notin DOMAIN tempDir.files
    /\ id \in DOMAIN imgDescr =>
          \A i \in 1..Len(imgDescr[id]) : RefPath(imgDescr[id][i].tag) \notin DOMAIN tempDir.files

\* C25: when saveImage comes to an image whose RootFS has no DiffID the save
\* fails with the empty-export error and that step stages no blob and records
\* no manifest; and at no time does the staging directory hold the
\* configuration blob, a manifest or a refs/ entry of such an image.
C25_EmptyExport ==
    [][/\ \A id \in DOMAIN is : Len(is[id].rootfs) = 0 => NothingStaged(id)
       /\ (pc = "images" /\ cur # NoDigest /\ Len(is[cur].rootfs) = 0) =>
             /\ pc' = "saveFailed"
             /\ err' = Err("EmptyExport", "empty export - not implemented")
             /\ putBlobs' = putBlobs
             /\ savedImages' = savedImages]_vars

\* the save of an image without layers failed after another image was staged
C25_Witness ==
    /\ pc = "saveFailed"
    /\ err.kind = "EmptyExport"
    /\ cur = IDE
    /\ DOMAIN savedImages # {}

\* C26: the staging directory exists from its creation to the return of save
\* and not after it: a step by which save returns, with the archive written
\* or with any error, leaves no staging directory, and none exists once save
\* has returned.
C26_TempDirRemoved ==
    [][/\ pc \in {"saved", "saveFailed"} => ~tempDir.exists
       /\ pc \in {"images", "layers", "pipe"} => tempDir.exists
       /\ (tempDir.exists /\ pc' \in {"saved", "saveFailed"}) => tempDir' = NoDir]_vars

\* the write of the archive to the output failed part-way, after an image was
\* staged
C26_Witness ==
    /\ pc = "saveFailed"
    /\ err = Err("IOError", "Copy")
    /\ DOMAIN savedImages # {}
    /\ out # <<>>
    /\ ~tempDir.exists

\* The name of refs/ under which reference i of image id is staged.
StagedName(id, i) == imgDescr[id][i].tag

\* Every resolved image is staged: its manifest is recorded and each of its
\* references, or its ID when it has none, is under refs/.
AllStaged ==
    /\ DOMAIN imgDescr = DOMAIN savedImages
    /\ \A id \in DOMAIN imgDescr :
          /\ \A i \in 1..Len(imgDescr[id]) : RefPath(StagedName(id, i)) \in DOMAIN tempDir.files
          /\ Len(imgDescr[id]) = 0 => RefPath(id.hex) \in DOMAIN tempDir.files

\* C27: a step of save writes to the output stream only when the range over
\* the resolved images is finished and every one of them is staged; while
\* images are being staged, and after a save that failed in staging an image
\* or in making the tar, the output stream has received nothing.
C27_OutputAfterStaging ==
    [][/\ out' # out => (pc = "images" /\ cur = NoDigest /\ todo = {} /\ AllStaged)
       /\ pc \in {"images", "layers", "pipe"} => out = <<>>
       /\ (pc = "saveFailed" /\ err # Err("IOError", "Copy")) => out = <<>>]_vars

\* the staging of a third image failed after two were staged
C27_Witness ==
    /\ pc = "saveFailed"
    /\ err.kind \in {"EmptyExport", "IOError"}
    /\ err.arg # "Copy"
    /\ Cardinality(DOMAIN savedImages) = 2
    /\ Cardinality(DOMAIN imgDescr) = 3
    /\ out = <<>>

\* ------------------------------------------------ claims on failed loads

\* C28: a step of loadOCI writes to the output stream only when the range
\* over the manifests is finished, and it writes the progress lines of all
\* manifests at once as it returns; while manifests are processed, and after
\* a load that returned an error, the output stream has received nothing.
C28_OutputAtEnd ==
    [][/\ loadOut' # loadOut =>
             /\ pc = "manifests" /\ mtodo = {} /\ pc' = "loaded"
             /\ Len(imageIDsStr) = Cardinality(DOMAIN manifests)
             /\ loadOut' = imageIDsStr
       /\ pc \in {"refs", "manifests", "loadLayers", "loadFailed"} => loadOut = <<>>]_vars

\* a load failed on its second manifest after the image of the first was
\* created
C28_Witness ==
    /\ pc = "loadFailed"
    /\ Len(events) = 1
    /\ Len(imageIDsStr) = 1
    /\ events[1].id \in DOMAIN is
    /\ loadOut = <<>>

\* ------------------------------------------------ claims on the command

\* C29: once runLoad has looked at its options, a command given both an input
\* file and a direct directory has returned the error `-input and -direct
\* cannot be used at the same time`, and it has opened no file, taken and read
\* no standard input and sent no request to the daemon.
C29_ConflictingOptions ==
    (cli.at \notin {"none", "options"} /\ cli.opts.input # "" /\ cli.opts.direct # "") =>
        /\ cli.at = "returned"
        /\ cli.err = Err("Error", "-input and -direct cannot be used at the same time")
        /\ cli.opened = <<>>
        /\ cli.input = "nil"
        /\ cli.read = {}
        /\ cli.requests = <<>>
        /\ cli.shown = ""

C29_Witness ==
    /\ cli.at = "returned"
    /\ cli.opts.input = "busybox.tar"
    /\ cli.opts.direct = "/layout"
    /\ cli.err.arg = ConflictingOptions

====
